---- MODULE Spec2Model ----
(***************************************************************************)
(* A model of the Infortrend NAS share driver (infortrend/infortrend_nas.py *)
(* and infortrend/driver.py).                                               *)
(*                                                                          *)
(* The driver object (InfortrendNAS) is the program state: cli_retry_time,  *)
(* ssh/sshpool and pool_dict.  The appliance it talks to over ssh is the    *)
(* environment: its folders, quotas and grants are the variable app, and    *)
(* what it answers to each attempt of a command is an input of the action.  *)
(*                                                                          *)
(* Python functions are operators over a "world" record w that is threaded  *)
(* through the calls: w.exc is the exception in flight ("none" when there   *)
(* is none), w.ret the value returned, w.log the command strings handed to  *)
(* the transport (processutils.ssh_execute) in order.  Python semantics are *)
(* those of Python 2, which the code is written for (dict.keys() is a list).*)
(*                                                                          *)
(* Python strings are sequences of atoms: the separators "/", ":", "\\" and *)
(* " " are atoms of their own, every other atom is a run of characters that *)
(* holds no separator.                                                      *)
(***************************************************************************)
EXTENDS Integers, Sequences, FiniteSets, TLC

VARIABLES
    cli_retry_time,  \* InfortrendNAS.cli_retry_time: [none, n]
    ssh,             \* InfortrendNAS.ssh / sshpool: "none" or "open"
    pool_dict,       \* InfortrendNAS.pool_dict: configured pool name -> entry
    app,             \* the appliance: pool listing, folders, quotas, grants
    last             \* the last call made on the driver and how it ended

vars == <<cli_retry_time, ssh, pool_dict, app, last>>

----------------------------------------------------------------------------
(* Bounds of the model *)

MaxRetries == 2      \* largest configured infortrend_cli_max_retries explored
MaxListing == 3      \* most pools the appliance lists in the setup specification
MaxSize == 2         \* largest share size (GB) asked for
MaxRules == 2        \* most access rules handed to one update_access

----------------------------------------------------------------------------
(* Python values *)

None == [t |-> "none"]
Text(s) == [t |-> "str", v |-> s]
Rec(r) == [t |-> "rec", v |-> r]
List(s) == [t |-> "list", v |-> s]
\* An int.  Byte counts are kept in units of 1024 bytes, so that those of the
\* appliance stay below 2^31.
Num(n) == [t |-> "num", v |-> n]
\* A float that is a byte count: 1024 * ki + b bytes, 0 <= b < 1024.
Float(ki, b) == [t |-> "float", ki |-> ki, b |-> b]
\* units.Gi (2^30 bytes), in units of 1024 bytes
Gi == 1048576

Range(s) == {s[i] : i \in DOMAIN s}

\* The element of a set of one element.  The({e : x \in {v}}) is e with x
\* standing for the value of v: the value of a call, taken once.
The(S) == CHOOSE y \in S : TRUE

StartsWith(s, sep) == Len(s) >= Len(sep) /\ SubSeq(s, 1, Len(sep)) = sep

RECURSIVE SplitFrom(_, _, _)
SplitFrom(s, sep, cur) ==
    IF s = <<>> THEN <<cur>>
    ELSE IF StartsWith(s, sep)
         THEN <<cur>> \o SplitFrom(SubSeq(s, Len(sep) + 1, Len(s)), sep, <<>>)
         ELSE SplitFrom(Tail(s), sep, Append(cur, Head(s)))

\* str.split(sep): the pieces of s between the occurrences of sep, left to right
split(s, sep) == SplitFrom(s, sep, <<>>)

RECURSIVE join(_, _)
\* sep.join(list)
join(sep, list) ==
    IF list = <<>> THEN <<>>
    ELSE IF Len(list) = 1 THEN list[1]
    ELSE list[1] \o sep \o join(sep, Tail(list))

RECURSIVE HexToInt_Decimal(_)
\* The digits read in base 10.
HexToInt_Decimal(digits) ==
    IF digits = <<>> THEN 0
    ELSE 10 * HexToInt_Decimal(SubSeq(digits, 1, Len(digits) - 1))
         + digits[Len(digits)]

RECURSIVE HexToInt(_)
\* int(s, 16) of a string of hex digits given by their values, "0x" dropped
HexToInt(digits) ==
    IF digits = <<>> THEN 0
    ELSE 16 * HexToInt(SubSeq(digits, 1, Len(digits) - 1)) + digits[Len(digits)]

----------------------------------------------------------------------------
(* The command executor: retry_cli, _execute, _ssh_execute, _parser *)

DEFAULT_RETRY_TIME == 5

location == <<"a@0">>

\* One attempt as the environment decides it:
\*   [kind |-> "reply", body |-> "obj", Return, CLI, data]  a decodable reply
\*   [kind |-> "reply", body |-> "empty"]   the body line is empty
\*   [kind |-> "reply", body |-> "bad"]     the body line is no JSON
\*   [kind |-> "exit", code, stdout]        ProcessExecutionError (exit status # 0)
\*   [kind |-> "transport"]                 the session cannot be reached
\*   [kind |-> "inactive"]                  the session's transport is not active

\* _parser that answers a body it cannot decode like an empty one.
_parser_BadAsCode(content) ==
    IF content.body \in {"bad", "empty"}
    THEN [exc |-> "none", rc |-> -1, result |-> None]
    ELSE LET rc == HexToInt(content.Return) IN
         IF rc = 0
         THEN IF content.data = <<>>
              THEN [exc |-> "IndexError", rc |-> 0, result |-> None]
              ELSE [exc |-> "none", rc |-> 0, result |-> content.data[1]]
         ELSE [exc |-> "none", rc |-> rc, result |-> Text(content.CLI)]

\* content is the third line of the reply, as json.loads sees it: "empty" for
\* an empty line, "bad" for text that is no JSON, otherwise the object with
\* cliCode[0].Return (hex digits), cliCode[0].CLI and data.
_parser(content) ==
    IF content.body = "bad"
    THEN [exc |-> "InfortrendNASException", rc |-> 0, result |-> None]
    ELSE IF content.body = "empty"
    THEN [exc |-> "none", rc |-> -1, result |-> None]
    ELSE LET rc == HexToInt(content.Return) IN
         IF rc = 0
         THEN IF content.data = <<>>
              THEN [exc |-> "IndexError", rc |-> 0, result |-> None]
              ELSE [exc |-> "none", rc |-> 0, result |-> content.data[1]]
         ELSE [exc |-> "none", rc |-> rc, result |-> Text(content.CLI)]

\* _ssh_execute whose transport call turns any failure into a return code.
_ssh_execute_Caught(w, commands, att) ==
    LET created == w.ssh = "none"
        w1 == IF created
              THEN [w EXCEPT !.ssh = "open", !.sessions = @ + 1]
              ELSE w
    IN  IF att.kind = "inactive"
        THEN [w1 EXCEPT !.exc = "AttributeError"]
        ELSE LET w2 == [w1 EXCEPT !.log = Append(@, commands)] IN
             IF att.kind = "exit"
             THEN [w2 EXCEPT !.ret = [rc |-> att.code, result |-> Text(att.stdout)]]
             ELSE IF att.kind = "reply"
             THEN LET p == _parser(att) IN
                  IF p.exc # "none"
                  THEN [w2 EXCEPT !.exc = p.exc]
                  ELSE [w2 EXCEPT !.ret = [rc |-> p.rc, result |-> p.result]]
             ELSE [w2 EXCEPT !.ret = [rc |-> -1, result |-> None]]

\* The body of _ssh_execute, one attempt: w.ssh is the session kept so far.
\* The session is created when there is none; a session whose transport is
\* not active is to be replaced through self.ssh_pool, an attribute the
\* object does not have (it keeps the pool as self.sshpool).
_ssh_execute(w, commands, att) ==
    LET created == w.ssh = "none"
        w1 == IF created
              THEN [w EXCEPT !.ssh = "open", !.sessions = @ + 1]
              ELSE w
    IN  IF att.kind = "inactive"
        THEN [w1 EXCEPT !.exc = "AttributeError"]
        ELSE LET w2 == [w1 EXCEPT !.log = Append(@, commands)] IN
             IF att.kind = "exit"
             THEN [w2 EXCEPT !.ret = [rc |-> att.code, result |-> Text(att.stdout)]]
             ELSE IF att.kind = "reply"
             THEN LET p == _parser(att) IN
                  IF p.exc # "none"
                  THEN [w2 EXCEPT !.exc = p.exc]
                  ELSE [w2 EXCEPT !.ret = [rc |-> p.rc, result |-> p.result]]
             ELSE [w2 EXCEPT !.exc = "SSHException"]

RECURSIVE retry_loop_NoBreak(_, _, _, _, _)
\* retry_cli without its "if rc == 0: break"
retry_loop_NoBreak(w, commands, atts, retry_time, total_retry_time) ==
    IF retry_time < total_retry_time
    THEN The({ IF r.exc # "none" THEN r
               ELSE retry_loop_NoBreak(r, commands, atts, retry_time + 1,
                                       total_retry_time)
               : r \in {_ssh_execute(w, commands, atts[retry_time + 1])} })
    ELSE IF retry_time = 0
         THEN [w EXCEPT !.exc = "UnboundLocalError"]
         ELSE w

RECURSIVE retry_loop(_, _, _, _, _)
\* The loop of retry_cli's inner(), from retry_time on.
retry_loop(w, commands, atts, retry_time, total_retry_time) ==
    IF retry_time < total_retry_time
    THEN The({ IF r.exc # "none" THEN r
               ELSE IF r.ret.rc = 0 THEN r
               ELSE retry_loop(r, commands, atts, retry_time + 1, total_retry_time)
               : r \in {_ssh_execute(w, commands, atts[retry_time + 1])} })
    ELSE IF retry_time = 0
         THEN [w EXCEPT !.exc = "UnboundLocalError"]
         ELSE w

\* total_retry_time of retry_cli: the configured count, 5 when it is None
Total(crt) == IF crt.none THEN DEFAULT_RETRY_TIME ELSE crt.n

\* The decorator retry_cli around _ssh_execute.
retry_cli(w, commands, atts) ==
    retry_loop(w, commands, atts, 0, Total(cli_retry_time))

OkReply(payload) ==
    [kind |-> "reply", body |-> "obj", Return |-> <<0, 0, 0, 0>>,
     CLI |-> <<"Successful">>, data |-> payload]

FailReply(digits, text) ==
    [kind |-> "reply", body |-> "obj", Return |-> digits,
     CLI |-> text, data |-> <<>>]

\* command_line.extend(['-z', self.location]); ' '.join(command_line)
CommandString(command_line) == join(<<" ">>, command_line \o <<<<"-z">>, location>>)

\* _execute that hands back the result whatever the return code.
_execute_Swallow(w, command_line, atts) ==
    The({ IF r.exc # "none" THEN r
          ELSE [r EXCEPT !.ret = r.ret.result]
          : r \in {retry_cli(w, CommandString(command_line), atts)} })

_execute(w, command_line, atts) ==
    The({ IF r.exc # "none" THEN r
          ELSE IF r.ret.rc # 0
               \* raise InfortrendNASException(err=msg, rc=rc, out=out): out is
               \* no name of _execute, so evaluating the arguments raises NameError
               THEN [r EXCEPT !.exc = "NameError"]
               ELSE [r EXCEPT !.ret = r.ret.result]
          : r \in {retry_cli(w, CommandString(command_line), atts)} })

----------------------------------------------------------------------------
(* The appliance, as the driver sees it through its command shell.  It is   *)
(* the environment of the program: what its commands do is taken from the   *)
(* specification (sections 4.3 to 4.5 and 6) and from the replies kept in   *)
(* tests/infortrend/test_infortrend_nas_data.py.                            *)
(*                                                                          *)
(*   app.listing  the pools: a sequence of [directory, volumeId]            *)
(*   app.folders  the folders of the pools: path -> [quota, nfs, cifs,      *)
(*                hosts, users]; hosts maps a host to "rw"/"ro", users a    *)
(*                user to "f"/"r"                                           *)
(*   app.users    the names of the appliance's users                        *)

Last(s) == s[Len(s)]
Front(s) == SubSeq(s, 1, Len(s) - 1)
Slash == <<"/">>
Star == <<"*">>

Basename(path) == Last(split(path, Slash))
Dirname(path) == join(Slash, Front(split(path, Slash)))

Remove(f, k) == [x \in DOMAIN f \ {k} |-> f[x]]
Put(f, k, v) == (k :> v) @@ f

EmptyMap == [x \in {} |-> 0]

NewFolder ==
    [quota |-> 0, nfs |-> FALSE, cifs |-> FALSE, hosts |-> EmptyMap,
     users |-> EmptyMap]

\* The command a command line of these words stands for.
ParseTokens(t) ==
    IF t[1] = <<"folder">> /\ t[2] = <<"status">> THEN [k |-> "folder_status"]
    ELSE IF t[1] = <<"folder">> /\ t[2] = <<"options">>
    THEN [k |-> IF t[5] = <<"-c">> THEN "create"
                ELSE IF t[5] = <<"-d">> THEN "delete" ELSE "rename",
          id |-> t[3], pool |-> t[4], name |-> t[6], new |-> t[7]]
    ELSE IF t[1] = <<"pagelist">> THEN [k |-> "pagelist", path |-> t[3]]
    ELSE IF t[1] = <<"fquota">>
    THEN IF t[2] = <<"create">>
         THEN [k |-> "quota_set", id |-> t[3], pool |-> t[4], name |-> t[5],
               size |-> t[6]]
         ELSE [k |-> "quota_get", id |-> t[3], pool |-> t[4], name |-> t[5]]
    ELSE IF t[1] = <<"share">> /\ t[2] = <<"status">>
    THEN [k |-> "share_status", path |-> t[4]]
    ELSE IF t[1] = <<"share">> /\ t[2] = <<"options">>
    THEN [k |-> IF t[5] = <<"-h">> THEN "grant" ELSE "revoke",
          path |-> t[3], host |-> t[6], level |-> t[8]]
    ELSE IF t[1] = <<"share">>
    THEN [k |-> "proto_on", path |-> t[2], proto |-> t[3]]
    ELSE IF t[1] = <<"acl">>
    THEN [k |-> "acl", path |-> t[3], user |-> t[5], level |-> t[7]]
    ELSE [k |-> "user_list"]

\* The command the appliance's shell reads from a command string.
ParseCommand(commands) == ParseTokens(split(commands, <<" ">>))

PoolEntries(a, id, pool) ==
    {i \in DOMAIN a.listing :
        /\ a.listing[i].volumeId = id
        /\ Basename(a.listing[i].directory) = pool}

\* The folder a create/delete/quota command names by pool id, pool name and
\* folder name.
FolderPath(a, c) ==
    a.listing[CHOOSE i \in PoolEntries(a, c.id, c.pool) : TRUE].directory
        \o Slash \o c.name

\* The appliance refuses the command: every attempt returns a nonzero code.
Rejects(a, c) ==
    IF c.k \in {"create", "delete", "rename", "quota_set", "quota_get"}
    THEN \/ PoolEntries(a, c.id, c.pool) = {}
         \/ (c.k = "create") = (FolderPath(a, c) \in DOMAIN a.folders)
    ELSE IF c.k = "pagelist"
    THEN \A i \in DOMAIN a.listing : a.listing[i].directory # c.path
    ELSE IF c.k \in {"share_status", "proto_on", "grant", "revoke", "acl"}
    THEN \/ c.path \notin DOMAIN a.folders
         \/ c.k = "acl" /\ c.user \notin a.users
         \/ c.k = "proto_on" /\ c.proto \notin {<<"nfs">>, <<"cifs">>}
    ELSE FALSE

\* The number a quota token "<n>G" stands for.
QuotaOf(token) == CHOOSE n \in 0..9 : <<ToString(n), "G">> = token

\* The appliance after it executed the command.
Effect(a, c) ==
    IF c.k = "create"
    THEN [a EXCEPT !.folders = Put(@, FolderPath(a, c), NewFolder)]
    ELSE IF c.k = "delete"
    THEN [a EXCEPT !.folders = Remove(@, FolderPath(a, c))]
    ELSE IF c.k = "rename"
    THEN [a EXCEPT !.folders =
             Put(Remove(@, FolderPath(a, c)),
                 Dirname(FolderPath(a, c)) \o Slash \o c.new,
                 @[FolderPath(a, c)])]
    ELSE IF c.k = "quota_set"
    THEN [a EXCEPT !.folders[FolderPath(a, c)].quota = QuotaOf(c.size)]
    ELSE IF c.k = "proto_on"
    THEN IF c.proto = <<"nfs">>
         THEN [a EXCEPT !.folders[c.path].nfs = TRUE,
                        !.folders[c.path].hosts =
                            IF Star \in DOMAIN @ THEN @ ELSE Put(@, Star, "ro")]
         ELSE [a EXCEPT !.folders[c.path].cifs = TRUE]
    ELSE IF c.k = "grant"
    THEN [a EXCEPT !.folders[c.path].hosts = Put(@, c.host, c.level[1])]
    ELSE IF c.k = "revoke"
    THEN [a EXCEPT !.folders[c.path].hosts = Remove(@, c.host)]
    ELSE IF c.k = "acl"
    THEN [a EXCEPT !.folders[c.path].users =
             IF c.level = <<"d">> THEN Remove(@, c.user)
             ELSE Put(@, c.user, c.level[1])]
    ELSE a

RECURSIVE SetToSeq(_)
SetToSeq(S) ==
    IF S = {} THEN <<>>
    ELSE LET x == CHOOSE y \in S : TRUE IN <<x>> \o SetToSeq(S \ {x})

\* The records the command's reply carries.
Records(a, c) ==
    IF c.k = "folder_status"
    THEN [i \in DOMAIN a.listing |-> Rec(a.listing[i])]
    ELSE IF c.k = "pagelist"
    THEN LET sub == SetToSeq({p \in DOMAIN a.folders : Dirname(p) = c.path})
         IN  [i \in DOMAIN sub |-> Rec([name |-> Basename(sub[i]), path |-> sub[i]])]
    ELSE LET us == SetToSeq(a.users)
         IN  [i \in DOMAIN us |-> Rec([Name |-> us[i]])]

\* The status record of a shared folder (fake_get_share_status_nfs,
\* fake_share_status_nfs_with_rules); hasUserList: cifs_detail lists the users.
ShareStatus(a, path, hasUserList) ==
    LET f == a.folders[path]
        hs == SetToSeq(DOMAIN f.hosts)
        us == SetToSeq(DOMAIN f.users)
        base == [nfs |-> f.nfs, cifs |-> f.cifs, directory |-> path]
        nfsd == IF f.nfs
                THEN ("nfs_detail" :>
                         Rec([hostList |-> List([i \in DOMAIN hs |->
                             Rec([host |-> hs[i], access |-> f.hosts[hs[i]]])])]))
                ELSE EmptyMap
        cifsd == IF f.cifs
                 THEN ("cifs_detail" :>
                          Rec(IF hasUserList
                              THEN [userList |-> List([i \in DOMAIN us |-> Text(us[i])]),
                                    available |-> TRUE]
                              ELSE [available |-> TRUE]))
                 ELSE EmptyMap
    IN  Rec(base @@ nfsd @@ cifsd)

\* The quota records of fquota status: the record of the folder asked for,
\* its quota a number ("ok": what _get_share_size reads), or the records of
\* the folders of the pool, their quotas strings ("fixture":
\* fake_fquota_status).
QuotaRecords(a, c, shape) ==
    IF shape = "fixture"
    THEN LET sub == SetToSeq({p \in DOMAIN a.folders :
                                 Dirname(p) = Dirname(FolderPath(a, c))})
         IN  [i \in DOMAIN sub |->
                 Rec([name |-> Basename(sub[i]),
                      quota |-> Text(<<ToString(a.folders[sub[i]].quota), "Gi">>)])]
    ELSE <<Rec([name |-> c.name,
                quota |-> Num(a.folders[FolderPath(a, c)].quota * Gi)])>>

\* The data of the appliance's reply to a command it executed.  A listing
\* comes either as the one element of data ("ok": what the callers of
\* _execute read, data being "typically a singleton") or with its records
\* at the top level of data ("fixture": fake_folder_status_data).
Answer(a, c, shape) ==
    IF c.k \in {"folder_status", "pagelist", "user_list"}
    THEN IF shape = "fixture" THEN Records(a, c) ELSE <<List(Records(a, c))>>
    ELSE IF c.k = "share_status"
    THEN <<ShareStatus(a, c.path, shape # "fixture")>>
    ELSE IF c.k = "quota_get"
    THEN QuotaRecords(a, c, shape)
    ELSE <<None>>

----------------------------------------------------------------------------
(* The world a call starts in, and what is kept of a call once it ended *)

Idle == [op |-> "idle"]

\* plan: which command of the call the appliance answers out of the ordinary
\* ([cmd |-> 0] for none), and how (see AttemptsFor).
World(plan) ==
    [ssh |-> ssh, sessions |-> 0, pool_dict |-> pool_dict, app |-> app,
     plan |-> plan, ncmd |-> 0, log |-> <<>>, trace |-> <<>>,
     exc |-> "none", info |-> None, ret |-> None]

Raise(w, e) == [w EXCEPT !.exc = e]

Return(w, v) == [w EXCEPT !.ret = v]

\* The end of a function that returns nothing, after its last call r.
Done(r) == IF r.exc # "none" THEN r ELSE Return(r, None)

\* The caller takes the result of the call; the driver is ready for the next.
Forget ==
    /\ last.op # "idle"
    /\ last' = Idle
    /\ UNCHANGED <<cli_retry_time, ssh, pool_dict, app>>

\* v[key] in Python: only a dict can be subscripted by a string
Sub(v, key) ==
    IF v.t # "rec" THEN [exc |-> "TypeError", val |-> None]
    ELSE IF key \notin DOMAIN v.v THEN [exc |-> "KeyError", val |-> None]
    ELSE [exc |-> "none", val |-> v.v[key]]

\* for x in v: a list gives its items, a dict its keys (strings)
Iter(v) ==
    IF v.t = "list" THEN [exc |-> "none", items |-> v.v]
    ELSE IF v.t = "rec"
    THEN [exc |-> "none",
          items |-> [i \in 1..Cardinality(DOMAIN v.v) |-> Text(<<"key">>)]]
    ELSE IF v.t = "str"
    THEN [exc |-> "none", items |-> [i \in DOMAIN v.v |-> Text(<<v.v[i]>>)]]
    ELSE [exc |-> "TypeError", items |-> <<>>]

Fates == {"fixture", "retry", "fail", "bad", "transport", "inactive"}

NoFault == [cmd |-> 0, fate |-> "ok"]

\* The plans of a call that issues at most n commands.
Plans(n) == {NoFault} \cup [cmd : 1..n, fate : Fates]

\* What the appliance answers to the attempts of a command, in order:
\*   "ok"        it executes the command at the first attempt
\*   "fixture"   the same, the reply in the shape of the test fixtures
\*   "retry"     it fails the first attempt and executes at the second
\*   "fail"      every attempt returns a nonzero code
\*   "bad"       the reply cannot be decoded
\*   "transport" the session cannot be reached
\*   "inactive"  the session's transport is found not active
AttemptsFor(a, c, fate) ==
    [i \in 1..Total(cli_retry_time) |->
        IF Rejects(a, c) \/ fate = "fail" \/ (fate = "retry" /\ i = 1)
        THEN FailReply(<<0, 0, 0, i>>, <<"failed">>)
        ELSE IF fate = "bad" THEN [kind |-> "reply", body |-> "bad"]
        ELSE IF fate \in {"transport", "inactive"} THEN [kind |-> fate]
        ELSE OkReply(Answer(a, c, fate))]

\* How the appliance answers the next command of the call.
FateOf(w) == IF w.plan.cmd = w.ncmd + 1 THEN w.plan.fate ELSE "ok"

\* The appliance executed the command: the last of the attempts made
\* returned code zero.
Executed(atts, made) ==
    /\ made >= 1
    /\ atts[made].kind = "reply" /\ atts[made].body = "obj"
    /\ atts[made].Return = <<0, 0, 0, 0>>

\* self._execute(command_line) against the appliance: the attempts are
\* answered by the appliance, which executes the command when an attempt
\* returns code zero.
Exec(w, command_line) ==
    The({ The({ The({ IF Executed(atts, Len(r.log) - Len(w.log))
                      THEN [r EXCEPT !.app = Effect(w.app, c)]
                      ELSE r
                      : r \in {_execute([w EXCEPT !.ncmd = @ + 1],
                                        command_line, atts)} })
                : atts \in {AttemptsFor(w.app, c, FateOf(w))} })
          : c \in {ParseCommand(CommandString(command_line))} })

----------------------------------------------------------------------------
(* Setup verification: check_for_setup_error, _check_pools_setup *)

_extract_pool_name(pool_info) ==
    LET d == Sub(pool_info, "directory") IN
    IF d.exc # "none" THEN d
    ELSE LET pieces == split(d.val, Slash) IN
         IF Len(pieces) < 3 THEN [exc |-> "IndexError", val |-> None]
         ELSE [exc |-> "none", val |-> pieces[3]]

\* The store of a matched pool with the path left out.
StorePool_NoPath(pd, pool_name, id, path) ==
    [pd EXCEPT ![pool_name] = Put(@, "id", id)]

\* self.pool_dict[pool_name]['id'] = ...; self.pool_dict[pool_name]['path'] = ...
StorePool(pd, pool_name, id, path) ==
    [pd EXCEPT ![pool_name] = Put(Put(@, "id", id), "path", path)]

RECURSIVE pools_loop(_, _, _)
\* The for loop of _check_pools_setup over the entries left; pool_list is
\* the working copy of the configured names (w.info while the loop runs).
pools_loop(w, pool_list, items) ==
    IF items = <<>> THEN [w EXCEPT !.info = pool_list]
    ELSE LET pool_info == Head(items)
             name == _extract_pool_name(pool_info)
         IN  IF name.exc # "none" THEN Raise(w, name.exc)
             ELSE IF name.val \in DOMAIN w.pool_dict
             THEN IF name.val \notin pool_list
                  THEN Raise(w, "ValueError")      \* pool_list.remove(pool_name)
                  ELSE LET w1 == [w EXCEPT !.pool_dict =
                                     StorePool(@, name.val,
                                               Sub(pool_info, "volumeId").val,
                                               Sub(pool_info, "directory").val)]
                           left == pool_list \ {name.val}
                       IN  IF left = {} THEN [w1 EXCEPT !.info = left]
                           ELSE pools_loop(w1, left, Tail(items))
             ELSE IF pool_list = {} THEN [w EXCEPT !.info = pool_list]
             ELSE pools_loop(w, pool_list, Tail(items))

_check_pools_setup(w) ==
    The({ IF r.exc # "none" THEN r
          ELSE LET it == Iter(r.ret) IN
               IF it.exc # "none" THEN Raise(r, it.exc)
               ELSE The({ IF l.exc # "none" THEN l
                          ELSE IF l.info # {}
                          THEN Raise(l, "VolumeDriverException")  \* info: pool_list
                          ELSE Return([l EXCEPT !.info = None], None)
                          : l \in {pools_loop(r, DOMAIN w.pool_dict, it.items)} })
          : r \in {Exec(w, <<<<"folder">>, <<"status">>>>)} })

check_for_setup_error(w) == _check_pools_setup(w)

----------------------------------------------------------------------------
(* Share lifecycle: create_share, delete_share, export locations,          *)
(* extend_share, manage_existing, unmanage                                  *)

nas_ip == <<"ip0">>

\* str.lower() of the protocol names in use
lower(s) ==
    [i \in DOMAIN s |->
        CASE s[i] = "NFS" -> "nfs"
          [] s[i] = "CIFS" -> "cifs"
          [] s[i] = "FTP" -> "ftp"
          [] OTHER -> s[i]]

\* str(n)
str(n) == <<ToString(n)>>

\* share_utils.extract_host(host, level='pool'): the pool after '#', or None
extract_host(host) ==
    LET pieces == split(host, <<"#">>) IN
    IF Len(pieces) = 2 THEN Text(pieces[2]) ELSE None

\* self.pool_dict[pool_name][key]
Lookup(w, pool_name, key) ==
    IF pool_name.t = "none" THEN [exc |-> "KeyError", val |-> None]
    ELSE IF pool_name.v \notin DOMAIN w.pool_dict
    THEN [exc |-> "KeyError", val |-> None]
    ELSE IF key \notin DOMAIN w.pool_dict[pool_name.v]
    THEN [exc |-> "KeyError", val |-> None]
    ELSE [exc |-> "none", val |-> w.pool_dict[pool_name.v][key]]

\* _export_location that gives every other protocol the NFS form.
_export_location_AnyProto(w, share_name, share_proto, pool_path) ==
    IF lower(share_proto) = <<"cifs">>
    THEN Return(w, <<<<"\\", "\\">> \o nas_ip \o <<"\\">> \o share_name>>)
    ELSE Return(w, <<nas_ip \o <<":", "/">> \o pool_path \o Slash \o share_name>>)

_export_location(w, share_name, share_proto, pool_path) ==
    IF lower(share_proto) = <<"nfs">>
    THEN Return(w, <<nas_ip \o <<":", "/">> \o pool_path \o Slash \o share_name>>)
    ELSE IF lower(share_proto) = <<"cifs">>
    THEN Return(w, <<<<"\\", "\\">> \o nas_ip \o <<"\\">> \o share_name>>)
    ELSE Raise(w, "InvalidInput")

\* A quota argument that does not follow the size.
QuotaToken_Fixed(share_size) == <<"1", "G">>

\* The quota argument of fquota create: str(share_size) + 'G'
QuotaToken(share_size) == str(share_size) \o <<"G">>

_set_share_size(w, pool_id, pool_name, share_name, share_size) ==
    Done(Exec(w, <<<<"fquota">>, <<"create">>, pool_id, pool_name,
                   share_name, QuotaToken(share_size),
                   <<"-t">>, <<"folder">>>>))

\* create_share that deletes the folder again when the quota cannot be set.
create_share_Rollback(w, share) ==
    LET pool_name == extract_host(share.host)
        pool_id == Lookup(w, pool_name, "id")
        pool_path == Lookup(w, pool_name, "path")
    IN  IF pool_id.exc # "none" THEN Raise(w, pool_id.exc)
        ELSE IF pool_path.exc # "none" THEN Raise(w, pool_path.exc)
        ELSE The({ IF r1.exc # "none" THEN r1
                   ELSE The({ IF r2.exc # "none"
                              THEN Raise(Exec([r2 EXCEPT !.exc = "none"],
                                              <<<<"folder">>, <<"options">>,
                                                pool_id.val, pool_name.v, <<"-d">>,
                                                share.id>>),
                                         r2.exc)
                              ELSE _export_location(r2, share.id, share.share_proto,
                                                    pool_path.val)
                              : r2 \in {_set_share_size(r1, pool_id.val, pool_name.v,
                                                        share.id, share.size)} })
                   : r1 \in {Exec(w, <<<<"folder">>, <<"options">>, pool_id.val,
                                       pool_name.v, <<"-c">>, share.id>>)} })

create_share(w, share) ==
    LET pool_name == extract_host(share.host)
        pool_id == Lookup(w, pool_name, "id")
        pool_path == Lookup(w, pool_name, "path")
    IN  IF pool_id.exc # "none" THEN Raise(w, pool_id.exc)
        ELSE IF pool_path.exc # "none" THEN Raise(w, pool_path.exc)
        ELSE The({ IF r1.exc # "none" THEN r1
                   ELSE The({ IF r2.exc # "none" THEN r2
                              ELSE _export_location(r2, share.id, share.share_proto,
                                                    pool_path.val)
                              : r2 \in {_set_share_size(r1, pool_id.val, pool_name.v,
                                                        share.id, share.size)} })
                   : r1 \in {Exec(w, <<<<"folder">>, <<"options">>, pool_id.val,
                                       pool_name.v, <<"-c">>, share.id>>)} })

RECURSIVE exist_loop(_, _, _)
\* for subfolder in subfolders: if subfolder['name'] == share_name: ...
exist_loop(items, share_name, share_exist) ==
    IF items = <<>> THEN [exc |-> "none", val |-> share_exist]
    ELSE LET name == Sub(Head(items), "name") IN
         IF name.exc # "none" THEN [exc |-> name.exc, val |-> FALSE]
         ELSE exist_loop(Tail(items), share_name,
                         share_exist \/ name.val = share_name)

_check_share_exist(w, pool_name, share_name) ==
    LET path == Lookup(w, pool_name, "path") IN
    IF path.exc # "none" THEN Raise(w, path.exc)
    ELSE The({ IF r.exc # "none" THEN r
               ELSE LET it == Iter(r.ret) IN
                    IF it.exc # "none" THEN Raise(r, it.exc)
                    ELSE LET found == exist_loop(it.items, share_name, FALSE) IN
                         IF found.exc # "none" THEN Raise(r, found.exc)
                         ELSE Return(r, found.val)
               : r \in {Exec(w, <<<<"pagelist">>, <<"folder">>, path.val>>)} })

\* delete_share that also forgets where the pool of the share is.
delete_share_ForgetPool(w, share) ==
    LET pool_name == extract_host(share.host)
        pool_id == Lookup(w, pool_name, "id")
    IN  IF pool_id.exc # "none" THEN Raise(w, pool_id.exc)
        ELSE The({ IF e.exc # "none" THEN e
                   ELSE IF e.ret
                   THEN Done(Exec([e EXCEPT !.pool_dict[pool_name.v] = EmptyMap],
                                  <<<<"folder">>, <<"options">>, pool_id.val,
                                    pool_name.v, <<"-d">>, share.id>>))
                   ELSE Return(e, None)
                   : e \in {_check_share_exist(w, pool_name, share.id)} })

delete_share(w, share) ==
    LET pool_name == extract_host(share.host)
        pool_id == Lookup(w, pool_name, "id")
    IN  IF pool_id.exc # "none" THEN Raise(w, pool_id.exc)
        ELSE The({ IF e.exc # "none" THEN e
                   ELSE IF e.ret
                   THEN Done(Exec(e, <<<<"folder">>, <<"options">>, pool_id.val,
                                       pool_name.v, <<"-d">>, share.id>>))
                   ELSE Return(e, None)
                   : e \in {_check_share_exist(w, pool_name, share.id)} })

ensure_share(w, share) ==
    LET pool_name == extract_host(share.host)
        pool_id == Lookup(w, pool_name, "id")
        pool_path == Lookup(w, pool_name, "path")
    IN  IF pool_id.exc # "none" THEN Raise(w, pool_id.exc)
        ELSE IF pool_path.exc # "none" THEN Raise(w, pool_path.exc)
        ELSE _export_location(w, share.id, share.share_proto, pool_path.val)

\* not x, for x a string or None
Falsy(x) == x.t = "none" \/ x.v = <<>>

_parse_location(w, input_location, share_proto) ==
    LET nfs == split(input_location, <<":", "/">>)
        cifs == split(input_location, <<"\\">>)
        pieces == split(nfs[2], Slash)
        found ==
            IF lower(share_proto) = <<"nfs">>
            THEN IF Len(nfs) = 2
                 THEN IF Len(pieces) < 2
                      THEN [exc |-> "IndexError"]
                      ELSE [exc |-> "none", ip |-> Text(nfs[1]),
                            ift_share_name |-> Text(pieces[2])]
                 ELSE [exc |-> "none", ip |-> None, ift_share_name |-> None]
            ELSE IF lower(share_proto) = <<"cifs">>
            THEN IF Len(cifs) = 4 /\ cifs[1] = <<>> /\ cifs[2] = <<>>
                 THEN [exc |-> "none", ip |-> Text(cifs[3]),
                       ift_share_name |-> Text(cifs[4])]
                 ELSE [exc |-> "none", ip |-> None, ift_share_name |-> None]
            ELSE [exc |-> "none", ip |-> None, ift_share_name |-> None]
    IN  IF found.exc # "none" THEN Raise(w, found.exc)
        ELSE IF Falsy(found.ip) \/ Falsy(found.ift_share_name)
        THEN Raise(w, "InfortrendNASException")
        ELSE Return(w, [ip |-> found.ip.v,
                        ift_share_name |-> found.ift_share_name.v])

\* bi_to_gi that divides a float as Python 2 divides an int.
bi_to_gi_Floor(bi_size) ==
    IF bi_size.t \in {"num", "float"}
    THEN [exc |-> "none",
          val |-> [whole |-> (IF bi_size.t = "num" THEN bi_size.v ELSE bi_size.ki)
                             \div Gi,
                   part |-> 0]]
    ELSE [exc |-> "TypeError", val |-> [whole |-> 0, part |-> 0]]

\* bi_size / units.Gi.  The quotient is whole + part / 2^30 with
\* 0 <= part < 2^30; dividing an int by an int leaves the whole number
\* (Python 2), dividing a string raises TypeError.
bi_to_gi(bi_size) ==
    IF bi_size.t = "num"
    THEN [exc |-> "none", val |-> [whole |-> bi_size.v \div Gi, part |-> 0]]
    ELSE IF bi_size.t = "float"
    THEN [exc |-> "none",
          val |-> [whole |-> bi_size.ki \div Gi,
                   part |-> (bi_size.ki % Gi) * 1024 + bi_size.b]]
    ELSE [exc |-> "TypeError", val |-> [whole |-> 0, part |-> 0]]

\* round(x, 2) of a quotient x of bi_to_gi, as a number of hundredths:
\* the half of floor(200 * x), rounded up.
round2(x) ==
    LET hi == x.part \div 1024
        lo == x.part % 1024
        twice == (hi * 200 + (lo * 200) \div 1024) \div Gi
    IN  x.whole * 100 + (twice + 1) \div 2

\* The value of a decimal digit, 10 for any other character.
DigitValue(ch) ==
    IF \E n \in 0..9 : ToString(n) = ch
    THEN CHOOSE n \in 0..9 : ToString(n) = ch
    ELSE 10

RECURSIVE DivDigits(_, _, _, _)
\* The decimal number with digits ds, after the part that came to q with
\* remainder r, divided by 1024: the quotient and the remainder.
DivDigits(ds, d, q, r) ==
    IF ds = <<>> THEN [q |-> q, r |-> r]
    ELSE LET cur == r * 10 + DigitValue(Head(ds)) IN
         DivDigits(Tail(ds), d, q * 10 + cur \div d, cur % d)

\* float(s) of a string of decimal digits (a byte count), ValueError for any
\* other string
float(s) ==
    IF s = <<>> \/ \E i \in DOMAIN s : DigitValue(s[i]) = 10
    THEN [exc |-> "ValueError", val |-> Float(0, 0)]
    ELSE LET d == DivDigits(s, 1024, 0, 0) IN
         [exc |-> "none", val |-> Float(d.q, d.r)]

_get_share_size(w, pool_id, pool_name, share_name) ==
    The({ IF r.exc # "none" THEN r
          ELSE LET quota == Sub(r.ret, "quota") IN
               IF quota.exc # "none" THEN Raise(r, quota.exc)
               ELSE LET share_size == bi_to_gi(quota.val) IN
                    IF share_size.exc # "none" THEN Raise(r, share_size.exc)
                    ELSE Return(r, round2(share_size.val))
          : r \in {Exec(w, <<<<"fquota">>, <<"status">>, pool_id, pool_name,
                             share_name, <<"-t">>, <<"folder">>>>)} })

\* extend_share: the quota is set, then the dict for LOG.info is built with
\* 'new_size': access_to, and extend_share has no name access_to.
extend_share(w, share, new_size) ==
    LET pool_name == extract_host(share.host)
        pool_id == Lookup(w, pool_name, "id")
    IN  IF pool_id.exc # "none" THEN Raise(w, pool_id.exc)
        ELSE The({ IF r.exc # "none" THEN r ELSE Raise(r, "NameError")
                   : r \in {_set_share_size(w, pool_id.val, pool_name.v,
                                            share.id, new_size)} })

\* manage_named that reads the quota of the folder named by the share id.
manage_named_OwnId(w, share, pool_name, pool_id, pool_path, ift_share_name) ==
    The({ IF e.exc # "none" THEN e
          ELSE IF ~e.ret THEN Raise(e, "InfortrendNASException")
          ELSE The({ IF z.exc # "none" THEN z
                     ELSE The({ IF l.exc # "none" THEN l
                                ELSE Return(l, [size |-> z.ret,
                                                export_locations |-> <<l.ret>>])
                                : l \in {_export_location(z, share.id,
                                                          share.share_proto,
                                                          pool_path)} })
                     : z \in {_get_share_size(e, pool_id, pool_name.v,
                                              share.id)} })
          : e \in {_check_share_exist(w, pool_name, ift_share_name)} })

\* manage_existing from line 483 on, the location parsed and its ip found to
\* be the appliance's.  The command line of the rename (lines 494-495) is
\* built and never handed to _execute.
manage_named(w, share, pool_name, pool_id, pool_path, ift_share_name) ==
    The({ IF e.exc # "none" THEN e
          ELSE IF ~e.ret THEN Raise(e, "InfortrendNASException")
          ELSE The({ IF z.exc # "none" THEN z
                     ELSE The({ IF l.exc # "none" THEN l
                                ELSE Return(l, [size |-> z.ret,
                                                export_locations |-> <<l.ret>>])
                                : l \in {_export_location(z, share.id,
                                                          share.share_proto,
                                                          pool_path)} })
                     : z \in {_get_share_size(e, pool_id, pool_name.v,
                                              ift_share_name)} })
          : e \in {_check_share_exist(w, pool_name, ift_share_name)} })

\* manage_existing without the comparison of the location's ip.
manage_existing_NoIpCheck(w, share) ==
    LET pool_name == extract_host(share.host)
        pool_id == Lookup(w, pool_name, "id")
        pool_path == Lookup(w, pool_name, "path")
    IN  IF pool_id.exc # "none" THEN Raise(w, pool_id.exc)
        ELSE IF pool_path.exc # "none" THEN Raise(w, pool_path.exc)
        ELSE The({ IF p.exc # "none" THEN p
                   ELSE manage_named([p EXCEPT !.info = p.ret], share, pool_name,
                                     pool_id.val, pool_path.val,
                                     p.ret.ift_share_name)
                   : p \in {_parse_location(w, share.export_locations[1].path,
                                            share.share_proto)} })

\* w.info keeps the ip and the share name parsed from the location.
manage_existing(w, share) ==
    LET pool_name == extract_host(share.host)
        pool_id == Lookup(w, pool_name, "id")
        pool_path == Lookup(w, pool_name, "path")
    IN  IF pool_id.exc # "none" THEN Raise(w, pool_id.exc)
        ELSE IF pool_path.exc # "none" THEN Raise(w, pool_path.exc)
        ELSE The({ IF p.exc # "none" THEN p
                   ELSE IF p.ret.ip # nas_ip
                   THEN Raise([p EXCEPT !.info = p.ret], "InfortrendNASException")
                   ELSE manage_named([p EXCEPT !.info = p.ret], share, pool_name,
                                     pool_id.val, pool_path.val,
                                     p.ret.ift_share_name)
                   : p \in {_parse_location(w, share.export_locations[1].path,
                                            share.share_proto)} })

\* s[:20] of the share ids in use: the ids of no more than 20 characters,
\* and fake_share_id[1] of the test data.
first20(s) ==
    [i \in DOMAIN s |->
        CASE s[i] = "a7b933e6-bb77-4823-a86f-f2c3ab41a8a5" -> "a7b933e6-bb77-4823-a"
          [] OTHER -> s[i]]

\* MANILA_UNMANAGE_PREFIX % share['id'][:20]
unmanage_name(id) == <<"manila-unmanage-">> \o first20(id)

\* unmanage: the command line of the rename (lines 545-546) is built, kept
\* here in w.info, and never handed to _execute.
unmanage(w, share) ==
    LET pool_name == extract_host(share.host)
        pool_id == Lookup(w, pool_name, "id")
    IN  IF pool_id.exc # "none" THEN Raise(w, pool_id.exc)
        ELSE The({ IF e.exc # "none" THEN e
                   ELSE IF ~e.ret THEN Return(e, None)
                   ELSE Return([e EXCEPT !.info =
                                   <<<<"folder">>, <<"options">>, pool_id.val,
                                     pool_name.v, <<"-e">>, share.id,
                                     unmanage_name(share.id)>>],
                               None)
                   : e \in {_check_share_exist(w, pool_name, share.id)} })

RECURSIVE probe_loop(_, _, _, _)
\* for pool in self.pool_dict.keys(): the keys left, in the order of keys()
probe_loop(w, keys, share, pool_name) ==
    IF keys = <<>> THEN Return(w, pool_name)
    ELSE The({ IF e.exc # "none" THEN e
               ELSE IF e.ret THEN Return(e, Text(Head(keys)))
               ELSE probe_loop(e, Tail(keys), share, pool_name)
               : e \in {_check_share_exist(w, Text(Head(keys)), share.id)} })

\* keys: self.pool_dict.keys(), a list in an order the dict decides
get_pool(w, share, keys) ==
    LET pool_name == extract_host(share.host) IN
    IF Falsy(pool_name)
    THEN probe_loop(w, keys, share, pool_name)
    ELSE Return(w, pool_name)

\* One pool of update_pools_stats; capacities are numbers of hundredths.
PoolStats(pool_name, total_space, available_space) ==
    [pool_name |-> pool_name,
     total_capacity_gb |-> round2(bi_to_gi(total_space).val),
     free_capacity_gb |-> round2(bi_to_gi(available_space).val)]

RECURSIVE stats_loop(_, _, _)
\* for pool_info in pools_data: the records left, pools the list so far
stats_loop(w, items, pools) ==
    IF items = <<>> THEN Return(w, pools)
    ELSE LET pool_info == Head(items)
             pool_name == _extract_pool_name(pool_info)
         IN  IF pool_name.exc # "none" THEN Raise(w, pool_name.exc)
             ELSE IF pool_name.val \notin DOMAIN w.pool_dict
             THEN stats_loop(w, Tail(items), pools)
             ELSE LET size == Sub(pool_info, "size")
                      free == Sub(pool_info, "free")
                  IN  IF size.exc # "none" THEN Raise(w, size.exc)
                      ELSE IF float(size.val).exc # "none"
                      THEN Raise(w, float(size.val).exc)
                      ELSE IF free.exc # "none" THEN Raise(w, free.exc)
                      ELSE IF float(free.val).exc # "none"
                      THEN Raise(w, float(free.val).exc)
                      ELSE stats_loop(w, Tail(items),
                                      Append(pools,
                                             PoolStats(pool_name.val,
                                                       float(size.val).val,
                                                       float(free.val).val)))

update_pools_stats(w) ==
    The({ IF r.exc # "none" THEN r
          ELSE LET it == Iter(r.ret) IN
               IF it.exc # "none" THEN Raise(r, it.exc)
               ELSE stats_loop(r, it.items, <<>>)
          : r \in {Exec(w, <<<<"folder">>, <<"status">>>>)} })

----------------------------------------------------------------------------
(* Access control: update_access, _clear_access, allow_access, deny_access *)

ACCESS_LEVEL_RW == <<"rw">>
ACCESS_LEVEL_RO == <<"ro">>

\* A call or a return of f noted in the trace, with the number of commands
\* handed to the transport so far.
Event(w, f, ev, access) ==
    [w EXCEPT !.trace = Append(@, [f |-> f, ev |-> ev, access |-> access,
                                   at |-> Len(w.log)])]

\* pool_path + '/' + share['id']
SharePath(w, share) ==
    LET pool_path == Lookup(w, extract_host(share.host), "path") IN
    IF pool_path.exc # "none" THEN pool_path
    ELSE [exc |-> "none", val |-> pool_path.val \o Slash \o share.id]

\* _check_access_legal that finds every access type legal.
_check_access_legal_Skip(w, share_proto, access_type) == w

_check_access_legal(w, share_proto, access_type) ==
    IF lower(share_proto) = <<"cifs">> /\ access_type # "user"
    THEN Raise(w, "InvalidShareAccess")
    ELSE IF lower(share_proto) = <<"nfs">> /\ access_type # "ip"
    THEN Raise(w, "InvalidShareAccess")
    ELSE IF lower(share_proto) \notin {<<"nfs">>, <<"cifs">>}
    THEN Raise(w, "InvalidShareAccess")
    ELSE w

\* share_status[share_proto], then False when it is true and True otherwise
_check_proto_enabled(w, share_path, share_proto) ==
    The({ IF r.exc # "none" THEN r
          ELSE LET check_enabled == Sub(r.ret, share_proto[1]) IN
               IF check_enabled.exc # "none" THEN Raise(r, check_enabled.exc)
               ELSE IF check_enabled.val THEN Return(r, FALSE)
               ELSE Return(r, TRUE)
          : r \in {Exec(w, <<<<"share">>, <<"status">>, <<"-f">>, share_path>>)} })

_ensure_protocol_on(w, share_path, share_proto) ==
    The({ IF e.exc # "none" THEN e
          ELSE IF ~e.ret
          THEN Done(Exec(e, <<<<"share">>, share_path, share_proto, <<"on">>>>))
          ELSE Return(e, None)
          : e \in {_check_proto_enabled(w, share_path, share_proto)} })

RECURSIVE user_loop(_, _)
\* for user in user_list: if user['Name'] == user_name: return True
user_loop(items, user_name) ==
    IF items = <<>> THEN [exc |-> "none", val |-> FALSE]
    ELSE LET name == Sub(Head(items), "Name") IN
         IF name.exc # "none" THEN [exc |-> name.exc, val |-> FALSE]
         ELSE IF name.val = user_name THEN [exc |-> "none", val |-> TRUE]
         ELSE user_loop(Tail(items), user_name)

_check_user_exist(w, user_name) ==
    The({ IF r.exc # "none" THEN r
          ELSE LET it == Iter(r.ret) IN
               IF it.exc # "none" THEN Raise(r, it.exc)
               ELSE LET found == user_loop(it.items, user_name) IN
                    IF found.exc # "none" THEN Raise(r, found.exc)
                    ELSE Return(r, found.val)
          : r \in {Exec(w, <<<<"useradmin">>, <<"user">>, <<"list">>>>)} })

\* The acl level allow_access sets for an access level of a CIFS rule.
AclLevel(access_level) ==
    IF access_level = ACCESS_LEVEL_RW THEN <<"f">>
    ELSE IF access_level = ACCESS_LEVEL_RO THEN <<"r">>
    ELSE <<>>

\* self._ensure_protocol_on(...) once _check_access_legal (l) has not raised
EnsureIfLegal(l, share_path, share_proto) ==
    IF l.exc # "none" THEN l ELSE _ensure_protocol_on(l, share_path, share_proto)

allow_access(w, share, access) ==
    LET share_path == SharePath(w, share)
        share_proto == share.share_proto
        access_to == access.access_to
    IN  IF share_path.exc # "none" THEN Raise(w, share_path.exc)
        ELSE
        The({ IF e.exc # "none" THEN e
              ELSE IF lower(share_proto) = <<"nfs">>
              THEN Done(Exec(e, <<<<"share">>, <<"options">>, share_path.val,
                                  <<"nfs">>, <<"-h">>, access_to,
                                  <<"-p">>, access.access_level>>))
              ELSE IF lower(share_proto) = <<"cifs">>
              THEN The({ IF u.exc # "none" THEN u
                         ELSE IF ~u.ret THEN Raise(u, "InfortrendNASException")
                         ELSE IF AclLevel(access.access_level) = <<>>
                         THEN Raise(u, "InvalidInput")
                         ELSE Done(Exec(u, <<<<"acl">>, <<"set">>, share_path.val,
                                             <<"-u">>, access_to, <<"-a">>,
                                             AclLevel(access.access_level)>>))
                         : u \in {_check_user_exist(e, access_to)} })
              ELSE Return(e, None)
              : e \in {EnsureIfLegal(_check_access_legal(w, share_proto,
                                                         access.access_type),
                                     share_path.val, share_proto)} })

\* deny_access that first asks for the share's status.
deny_access_Querying(w, share, access) ==
    LET share_path == SharePath(w, share)
        share_proto == share.share_proto
        access_to == access.access_to
    IN  IF share_path.exc # "none" THEN Raise(w, share_path.exc)
        ELSE
        The({ IF l.exc # "none" THEN l
              ELSE The({ IF q.exc # "none" THEN q
                         ELSE IF lower(share_proto) = <<"nfs">>
                         THEN Done(Exec(q, <<<<"share">>, <<"options">>,
                                             share_path.val, <<"nfs">>, <<"-c">>,
                                             access_to>>))
                         ELSE Done(Exec(q, <<<<"acl">>, <<"set">>, share_path.val,
                                             <<"-u">>, access_to, <<"-a">>, <<"d">>>>))
                         : q \in {Exec(l, <<<<"share">>, <<"status">>, <<"-f">>,
                                            share_path.val>>)} })
              : l \in {_check_access_legal(w, share_proto, access.access_type)} })

deny_access(w, share, access) ==
    LET share_path == SharePath(w, share)
        share_proto == share.share_proto
        access_to == access.access_to
    IN  IF share_path.exc # "none" THEN Raise(w, share_path.exc)
        ELSE
        The({ IF l.exc # "none" THEN l
              ELSE IF lower(share_proto) = <<"nfs">>
              THEN Done(Exec(l, <<<<"share">>, <<"options">>, share_path.val,
                                  <<"nfs">>, <<"-c">>, access_to>>))
              ELSE IF lower(share_proto) = <<"cifs">>
              THEN Done(Exec(l, <<<<"acl">>, <<"set">>, share_path.val,
                                  <<"-u">>, access_to, <<"-a">>, <<"d">>>>))
              ELSE Return(l, None)
              : l \in {_check_access_legal(w, share_proto, access.access_type)} })

RECURSIVE host_loop_All(_, _, _)
\* The loop over the host list without its test for '*'.
host_loop_All(w, share_path, items) ==
    IF items = <<>> THEN w
    ELSE LET host == Sub(Head(items), "host") IN
         IF host.exc # "none" THEN Raise(w, host.exc)
         ELSE The({ IF r.exc # "none" THEN r
                    ELSE host_loop_All(r, share_path, Tail(items))
                    : r \in {Exec(w, <<<<"share">>, <<"options">>, share_path,
                                       <<"nfs">>, <<"-c">>, host.val>>)} })

RECURSIVE host_loop(_, _, _)
\* for host in host_list: if host['host'] != '*': revoke it
host_loop(w, share_path, items) ==
    IF items = <<>> THEN w
    ELSE LET host == Sub(Head(items), "host") IN
         IF host.exc # "none" THEN Raise(w, host.exc)
         ELSE IF host.val # Star
         THEN The({ IF r.exc # "none" THEN r
                    ELSE host_loop(r, share_path, Tail(items))
                    : r \in {Exec(w, <<<<"share">>, <<"options">>, share_path,
                                       <<"nfs">>, <<"-c">>, host.val>>)} })
         ELSE host_loop(w, share_path, Tail(items))

RECURSIVE cifs_user_loop(_, _, _)
\* for user in user_list: acl set share_path -u user -a d
cifs_user_loop(w, share_path, items) ==
    IF items = <<>> THEN w
    ELSE IF Head(items).t # "str" THEN Raise(w, "TypeError")
    ELSE The({ IF r.exc # "none" THEN r
               ELSE cifs_user_loop(r, share_path, Tail(items))
               : r \in {Exec(w, <<<<"acl">>, <<"set">>, share_path, <<"-u">>,
                                  Head(items).v, <<"-a">>, <<"d">>>>)} })

\* share_status[detail][list], ready to be iterated
DetailList(share_status, detail, list) ==
    LET d == Sub(share_status, detail) IN
    IF d.exc # "none" THEN [exc |-> d.exc, items |-> <<>>]
    ELSE LET l == Sub(d.val, list) IN
         IF l.exc # "none" THEN [exc |-> l.exc, items |-> <<>>]
         ELSE Iter(l.val)

\* _clear_access that revokes nothing.
_clear_access_Nothing(w, share) == Return(w, None)

_clear_access(w, share) ==
    LET share_path == SharePath(w, share) IN
    IF share_path.exc # "none" THEN Raise(w, share_path.exc)
    ELSE
    The({ IF s.exc # "none" THEN s
          ELSE IF lower(share.share_proto) = <<"nfs">>
          THEN LET host_list == DetailList(s.ret, "nfs_detail", "hostList") IN
               IF host_list.exc # "none" THEN Raise(s, host_list.exc)
               ELSE Done(host_loop(s, share_path.val, host_list.items))
          ELSE IF lower(share.share_proto) = <<"cifs">>
          THEN LET user_list == DetailList(s.ret, "cifs_detail", "userList") IN
               IF user_list.exc # "none" THEN Raise(s, user_list.exc)
               ELSE Done(cifs_user_loop(s, share_path.val, user_list.items))
          ELSE Return(s, None)
          : s \in {Exec(w, <<<<"share">>, <<"status">>, <<"-f">>, share_path.val>>)} })

RECURSIVE allow_loop(_, _, _)
\* for access in rules: self.allow_access(share, access, share_server)
allow_loop(w, share, rules) ==
    IF rules = <<>> THEN w
    ELSE The({ IF r.exc # "none" THEN r
               ELSE allow_loop(Event(r, "allow_access", "return", Head(rules)),
                               share, Tail(rules))
               : r \in {allow_access(Event(w, "allow_access", "call", Head(rules)),
                                     share, Head(rules))} })

RECURSIVE deny_loop(_, _, _)
\* for access in rules: self.deny_access(share, access, share_server)
deny_loop(w, share, rules) ==
    IF rules = <<>> THEN w
    ELSE The({ IF r.exc # "none" THEN r
               ELSE deny_loop(Event(r, "deny_access", "return", Head(rules)),
                              share, Tail(rules))
               : r \in {deny_access(Event(w, "deny_access", "call", Head(rules)),
                                    share, Head(rules))} })

\* The return of f noted in the trace, when its call r has not raised.
Returned_(r, f) == IF r.exc # "none" THEN r ELSE Event(r, f, "return", None)

\* self._clear_access(share, share_server), noted in the trace
clear_call(w, share) ==
    Returned_(_clear_access(Event(w, "_clear_access", "call", None), share),
              "_clear_access")

\* The allow loop of update_access, run when the step before it (r) has
\* not raised.
AllowAfter(r, share, rules) ==
    IF r.exc # "none" THEN r ELSE allow_loop(r, share, rules)

\* update_access with the two loops of the delta branch exchanged.
update_access_AddFirst(w, share, access_rules, add_rules, delete_rules) ==
    IF add_rules = <<>> /\ delete_rules = <<>>
    THEN Done(AllowAfter(clear_call(w, share), share, access_rules))
    ELSE Done(The({ IF a.exc # "none" THEN a
                    ELSE deny_loop(a, share, delete_rules)
                    : a \in {allow_loop(w, share, add_rules)} }))

\* update_access whose full resync clears after it has granted.
update_access_ClearLast(w, share, access_rules, add_rules, delete_rules) ==
    IF add_rules = <<>> /\ delete_rules = <<>>
    THEN Done(The({ IF a.exc # "none" THEN a ELSE clear_call(a, share)
                    : a \in {allow_loop(w, share, access_rules)} }))
    ELSE Done(AllowAfter(deny_loop(w, share, delete_rules), share, add_rules))

\* update_access whose delta branch grants all of access_rules.
update_access_Reapply(w, share, access_rules, add_rules, delete_rules) ==
    IF add_rules = <<>> /\ delete_rules = <<>>
    THEN Done(AllowAfter(clear_call(w, share), share, access_rules))
    ELSE Done(AllowAfter(deny_loop(w, share, delete_rules), share, access_rules))

update_access(w, share, access_rules, add_rules, delete_rules) ==
    IF add_rules = <<>> /\ delete_rules = <<>>
    THEN Done(AllowAfter(clear_call(w, share), share, access_rules))
    ELSE Done(AllowAfter(deny_loop(w, share, delete_rules), share, add_rules))

----------------------------------------------------------------------------
(* SpecExec: one command through _execute, the appliance's answer to every *)
(* attempt chosen freely.                                                   *)

Attempts ==
    { OkReply(<<Rec([name |-> <<"a">>])>>),
      OkReply(<<Rec([name |-> <<"b">>])>>),
      OkReply(<<>>),
      FailReply(<<0, 0, 0, 1>>, <<"e1">>),
      FailReply(<<0, 0, 0, 11>>, <<"e2">>),
      [kind |-> "reply", body |-> "empty"],
      [kind |-> "reply", body |-> "bad"],
      [kind |-> "exit", code |-> 2, stdout |-> <<"out">>],
      [kind |-> "transport"],
      [kind |-> "inactive"] }

RetryTimes ==
    {[none |-> TRUE, n |-> 0]} \cup {[none |-> FALSE, n |-> i] : i \in -1..MaxRetries}

NoPools == [listing |-> <<>>]

InitExec ==
    /\ cli_retry_time \in RetryTimes
    /\ ssh \in {"none", "open"}
    /\ pool_dict = <<>>
    /\ app = NoPools
    /\ last = Idle

ExecCommand ==
    /\ last.op = "idle"
    /\ \E atts \in [1..Total(cli_retry_time) -> Attempts] :
       \E r \in {_execute(World(NoFault), <<<<"folder">>, <<"status">>>>, atts)} :
         /\ ssh' = r.ssh
         /\ last' = [op |-> "_execute", cmd |-> <<<<"folder">>, <<"status">>>>,
                     atts |-> atts, ssh0 |-> ssh, exc |-> r.exc, ret |-> r.ret,
                     log |-> r.log, sessions |-> r.sessions]
    /\ UNCHANGED <<cli_retry_time, pool_dict, app>>

NextExec == ExecCommand \/ Forget

SpecExec == InitExec /\ [][NextExec]_vars

----------------------------------------------------------------------------
(* Claims about the executor *)

\* The attempt came back with a return code (a reply or an exit status).
Returned(att) ==
    \/ att.kind = "exit"
    \/ att.kind = "reply" /\ att.body \in {"obj", "empty"}

Code(att) ==
    IF att.kind = "exit" THEN att.code
    ELSE IF att.body = "empty" THEN -1
    ELSE HexToInt(att.Return)

Failed(att) == Returned(att) /\ Code(att) # 0

\* The attempt came back with return code zero and a payload.
Succeeded(att) ==
    /\ att.kind = "reply" /\ att.body = "obj"
    /\ HexToInt(att.Return) = 0 /\ att.data # <<>>

\* C1: when the first k-1 attempts of a command return a nonzero code and
\* attempt k returns zero (1 <= k <= maxRetries), _execute makes exactly k
\* transport calls, none after the successful one, and returns the payload
\* of attempt k.
C1_RetryUntilSuccess ==
    last.op = "_execute" =>
        \A k \in 1..Total(cli_retry_time) :
            ( /\ \A j \in 1..(k - 1) : Failed(last.atts[j])
              /\ Succeeded(last.atts[k]) )
            => /\ Len(last.log) = k
               /\ last.exc = "none"
               /\ last.ret = last.atts[k].data[1]

C1_Witness ==
    /\ last.op = "_execute"
    /\ Total(cli_retry_time) > 2
    /\ Failed(last.atts[1])
    /\ Succeeded(last.atts[2])
    /\ Succeeded(last.atts[3])
    /\ last.atts[3] # last.atts[2]
    /\ Len(last.log) = 2
    /\ last.ret = last.atts[2].data[1]

\* C2: when every attempt of a command returns a nonzero code, _execute makes
\* exactly maxRetries transport calls and then fails with
\* InfortrendNASException carrying the last return code and error text.
C2_AllFailRaisesCommandError ==
    ( /\ last.op = "_execute"
      /\ Total(cli_retry_time) >= 1
      /\ \A j \in 1..Total(cli_retry_time) : Failed(last.atts[j]) )
    => /\ Len(last.log) = Total(cli_retry_time)
       /\ last.exc = "InfortrendNASException"
       /\ last.ret.rc = Code(last.atts[Total(cli_retry_time)])

\* C19: a transport-level failure of the session while a command is executed
\* reaches the caller as the transport's own exception and is not retried:
\* when the first k-1 attempts return a nonzero code and attempt k fails in
\* the transport, exactly k transport calls are made (one when k = 1).
C19_TransportNotRetried ==
    last.op = "_execute" =>
        \A k \in 1..Total(cli_retry_time) :
            ( /\ \A j \in 1..(k - 1) : Failed(last.atts[j])
              /\ last.atts[k].kind = "transport" )
            => /\ last.exc = "SSHException"
               /\ Len(last.log) = k

C19_Witness ==
    /\ last.op = "_execute"
    /\ Total(cli_retry_time) >= 2
    /\ last.atts[1].kind = "transport"
    /\ Succeeded(last.atts[2])
    /\ last.exc = "SSHException"
    /\ Len(last.log) = 1

\* C20: before a command is sent a session exists and is active: it is
\* created on first use, reused while it is active, and a session found
\* inactive is replaced by a fresh one on which the command is then issued.
C20_SessionReady ==
    (last.op = "_execute" /\ Total(cli_retry_time) >= 1) =>
        /\ last.ssh0 = "none" => last.sessions = 1
        /\ ( /\ last.ssh0 = "open"
             /\ \A j \in DOMAIN last.atts : last.atts[j].kind # "inactive" )
           => last.sessions = 0
        /\ last.atts[1].kind = "inactive" =>
              /\ last.exc # "AttributeError"
              /\ last.sessions >= 1
              /\ Len(last.log) >= 1

\* C21: with a configured retry count of zero or less a command is still
\* attempted at least once, and the call ends with the payload or with the
\* command-execution error.
C21_NonPositiveRetriesAttemptOnce ==
    (last.op = "_execute" /\ Total(cli_retry_time) <= 0) =>
        /\ last.sessions + Len(last.log) >= 1
        /\ last.exc \in {"none", "InfortrendNASException"}

\* C24: a reply whose body cannot be decoded makes the call fail with the
\* malformed-reply error, which no nonzero return code produces: no (code,
\* payload) pair comes back for it, and when it is the answer to the last
\* attempt no further command is sent.
C24_MalformedReplyFails ==
    last.op = "_execute" =>
        /\ \A k \in 1..Total(cli_retry_time) :
              ( /\ \A j \in 1..(k - 1) : Failed(last.atts[j])
                /\ last.atts[k].kind = "reply" /\ last.atts[k].body = "bad" )
              => /\ last.exc = "InfortrendNASException"
                 /\ k = 1 => last.ret = None
                 /\ k = Total(cli_retry_time) => Len(last.log) = k
        /\ last.exc = "InfortrendNASException" =>
              \E k \in 1..Total(cli_retry_time) :
                  last.atts[k].kind = "reply" /\ last.atts[k].body = "bad"

C24_Witness ==
    /\ last.op = "_execute"
    /\ Total(cli_retry_time) = 2
    /\ Failed(last.atts[1])
    /\ last.atts[2].kind = "reply" /\ last.atts[2].body = "bad"
    /\ last.exc = "InfortrendNASException"
    /\ Len(last.log) = 2

\* C25: a reply that cannot be decoded is retried while attempts remain: when
\* attempt k < maxRetries gets such a reply, attempt k+1 is made, and when
\* that one returns code zero the call succeeds with its payload.
C25_MalformedReplyRetried ==
    last.op = "_execute" =>
        \A k \in 1..(Total(cli_retry_time) - 1) :
            ( /\ \A j \in 1..(k - 1) : Failed(last.atts[j])
              /\ last.atts[k].kind = "reply" /\ last.atts[k].body = "bad" )
            => /\ Len(last.log) >= k + 1
               /\ Succeeded(last.atts[k + 1]) =>
                     /\ last.exc = "none"
                     /\ last.ret = last.atts[k + 1].data[1]

----------------------------------------------------------------------------
(* SpecParser: _parser applied to every reply of a small family *)

ServiceStatus == Rec([A |-> Rec([NFS |-> Rec([enabled |-> TRUE])])])

PoolStatus(dir, size) == Rec([directory |-> Text(dir), size |-> Text(size)])

\* The data lists of the replies: none, the one record of "service status",
\* the two pool records of "folder status", and a list given as one element.
ParserData ==
    LET pool1 == PoolStatus(<<"/", "LV-1", "/", "share-pool-01">>, <<"321965260800">>)
        pool2 == PoolStatus(<<"/", "LV-1", "/", "share-pool-02">>, <<"107321753600">>)
    IN  { <<>>, <<ServiceStatus>>, <<pool1, pool2>>, <<List(<<pool1, pool2>>)>> }

HexDigits == {0, 1, 10, 15}

Replies ==
    { [kind |-> "reply", body |-> "obj", Return |-> d, CLI |-> t, data |-> l]
      : d \in [1..4 -> HexDigits], t \in {<<"Successful">>, <<"e1">>},
        l \in ParserData }
    \cup {[kind |-> "reply", body |-> "empty"], [kind |-> "reply", body |-> "bad"]}

InitParser ==
    /\ cli_retry_time = [none |-> TRUE, n |-> 0]
    /\ ssh = "none"
    /\ pool_dict = <<>>
    /\ app = NoPools
    /\ last = Idle

Parse ==
    /\ last.op = "idle"
    /\ \E content \in Replies :
       \E p \in {_parser(content)} :
         last' = [op |-> "_parser", content |-> content, exc |-> p.exc,
                  rc |-> p.rc, result |-> p.result]
    /\ UNCHANGED <<cli_retry_time, ssh, pool_dict, app>>

NextParser == Parse \/ Forget

SpecParser == InitParser /\ [][NextParser]_vars

\* The number that four hex digits write, most significant first.
Positional(d) == 4096 * d[1] + 256 * d[2] + 16 * d[3] + d[4]

C23_PayloadIsDataList ==
    ( /\ last.op = "_parser"
      /\ last.content.body = "obj"
      /\ last.content.Return = <<0, 0, 0, 0>> )
    => /\ last.exc = "none"
       /\ last.rc = 0
       /\ last.result = List(last.content.data)

----------------------------------------------------------------------------
(* SpecSetup: setup verification against every short pool listing *)

Dir(lv, pool) == <<"/", lv, "/">> \o pool

LVs == {"LV-1", "LV-2"}

\* infortrend_share_pools: the pool names that can be configured
PoolNames == {<<"p1">>, <<"p2">>}

PoolRecords ==
    { [directory |-> Dir("LV-1", <<"p1">>), volumeId |-> <<"id1">>],
      [directory |-> Dir("LV-1", <<"p2">>), volumeId |-> <<"id2">>],
      [directory |-> Dir("LV-2", <<"p1">>), volumeId |-> <<"id3">>],
      [directory |-> Dir("LV-1", <<"p3">>), volumeId |-> <<"id4">>] }

Injective(q) == \A i, j \in DOMAIN q : q[i] = q[j] => i = j

Listings ==
    UNION {{q \in [1..n -> PoolRecords] : Injective(q)} : n \in 0..MaxListing}

\* InfortrendNASDriver._init_pool_dict: every configured name maps to {}
InitPoolDict(names) == [n \in names |-> EmptyMap]

ConfiguredRetries == {[none |-> FALSE, n |-> i] : i \in 1..MaxRetries}

InitSetup ==
    /\ cli_retry_time \in ConfiguredRetries
    /\ ssh = "none"
    /\ pool_dict \in {InitPoolDict(names) : names \in SUBSET PoolNames \ {{}}}
    /\ app \in [listing : Listings, folders : {EmptyMap}, users : {{}}]
    /\ last = Idle

Setup ==
    /\ last.op = "idle"
    /\ \E plan \in Plans(1) :
         \E r \in {check_for_setup_error(World(plan))} :
         /\ ssh' = r.ssh
         /\ pool_dict' = r.pool_dict
         /\ app' = r.app
         /\ last' = [op |-> "check_for_setup_error", plan |-> plan,
                     exc |-> r.exc, info |-> r.info, ret |-> r.ret,
                     log |-> r.log, trace |-> r.trace]
    /\ UNCHANGED cli_retry_time

NextSetup == Setup \/ Forget

SpecSetup == InitSetup /\ [][NextSetup]_vars

----------------------------------------------------------------------------
(* Claims about setup verification *)

\* The listing entries whose directory is /<lv>/<name>.
EntriesNamed(name) ==
    {i \in DOMAIN app.listing :
        \E lv \in LVs : app.listing[i].directory = <<"/", lv, "/">> \o name}

\* C7: after check_for_setup_error returned successfully, every configured
\* pool name has a registry entry holding the volume id and the path of a
\* listing entry whose directory's second segment is that name.
C7_RegistryPopulated ==
    (last.op = "check_for_setup_error" /\ last.exc = "none") =>
        \A name \in DOMAIN pool_dict :
            /\ {"id", "path"} \subseteq DOMAIN pool_dict[name]
            /\ \E i \in EntriesNamed(name) :
                  /\ pool_dict[name]["id"] = app.listing[i].volumeId
                  /\ pool_dict[name]["path"] = app.listing[i].directory

C7_Witness ==
    /\ last.op = "check_for_setup_error" /\ last.exc = "none"
    /\ Cardinality(DOMAIN pool_dict) = 2
    /\ Len(app.listing) = 3
    /\ pool_dict[<<"p1">>]["path"] = Dir("LV-2", <<"p1">>)

AbsentNames == {name \in DOMAIN pool_dict : EntriesNamed(name) = {}}

\* C8: when configured pool names are absent from the folder-status listing
\* (the listing in the shape _check_pools_setup reads), setup fails with the
\* pool-not-found error, which names exactly the absent configured names.
C8_AbsentPoolsReported ==
    ( /\ last.op = "check_for_setup_error"
      /\ last.plan.fate \in {"ok", "retry"}
      /\ Len(last.log) >= 1
      /\ last.exc # "NameError"
      /\ AbsentNames # {} )
    => /\ last.exc = "VolumeDriverException"
       /\ last.info = AbsentNames

----------------------------------------------------------------------------
(* Spec: the driver from construction on: setup, then shares created,     *)
(* deleted, extended, managed and unmanaged on the one configured pool.     *)

ThePool == <<"p1">>

TheListing == <<[directory |-> Dir("LV-1", ThePool), volumeId |-> <<"id1">>]>>

ShareIds == {<<"s1">>, <<"s2">>}

\* share['host']: host@backend#pool
HostOf(pool) == <<"host@ift">> \o <<"#">> \o pool

Shares ==
    [id : ShareIds, host : {HostOf(ThePool)},
     share_proto : {<<"NFS">>, <<"nfs">>, <<"CIFS">>, <<"FTP">>},
     size : 1..MaxSize]

Init ==
    /\ cli_retry_time \in ConfiguredRetries
    /\ ssh = "none"
    /\ pool_dict = InitPoolDict({ThePool})
    /\ app = [listing |-> TheListing, folders |-> EmptyMap, users |-> {}]
    /\ last = Idle

\* What is kept of a call on a share: the share, the plan of the appliance's
\* answers, the appliance before the call (app0) and how the call ended.
Ended(op, share, plan, r, again) ==
    [op |-> op, share |-> share, plan |-> plan, app0 |-> app,
     exc |-> r.exc, ret |-> r.ret, log |-> r.log, again |-> again]

CreateShare ==
    /\ last.op = "idle"
    /\ \E share \in Shares, plan \in Plans(2) :
         \E r \in {create_share(World(plan), share)} :
         /\ ssh' = r.ssh
         /\ pool_dict' = r.pool_dict
         /\ app' = r.app
         /\ last' = Ended("create_share", share, plan, r, FALSE)
    /\ UNCHANGED cli_retry_time

\* delete_share reads the host and the id of the share only.
DeletedShares == {share \in Shares : share.size = 1 /\ share.share_proto = <<"NFS">>}

DeleteShare ==
    /\ last.op = "idle"
    /\ \E share \in DeletedShares, plan \in Plans(2) :
         \E r \in {delete_share(World(plan), share)} :
         /\ ssh' = r.ssh
         /\ pool_dict' = r.pool_dict
         /\ app' = r.app
         /\ last' = Ended("delete_share", share, plan, r, FALSE)
    /\ UNCHANGED cli_retry_time

\* delete_share called again on the share of the delete_share that just ended.
DeleteAgain ==
    /\ last.op = "delete_share" /\ ~last.again
    /\ \E plan \in Plans(2) :
         \E r \in {delete_share(World(plan), last.share)} :
         /\ ssh' = r.ssh
         /\ pool_dict' = r.pool_dict
         /\ app' = r.app
         /\ last' = Ended("delete_share", last.share, plan, r, TRUE)
    /\ UNCHANGED cli_retry_time

\* The location create_share returned is parsed back for the same protocol.
ParseLocation ==
    /\ last.op = "create_share" /\ last.exc = "none"
    /\ \E r \in {_parse_location(World(NoFault), last.ret[1],
                                  last.share.share_proto)} :
         last' = [op |-> "_parse_location", share |-> last.share,
                  input_location |-> last.ret[1],
                  exc |-> r.exc, ret |-> r.ret]
    /\ UNCHANGED <<cli_retry_time, ssh, pool_dict, app>>

ExtendShare ==
    /\ last.op = "idle"
    /\ \E share \in DeletedShares, new_size \in 1..MaxSize, plan \in Plans(1) :
         \E r \in {extend_share(World(plan), share, new_size)} :
         /\ ssh' = r.ssh
         /\ pool_dict' = r.pool_dict
         /\ app' = r.app
         /\ last' = [new_size |-> new_size]
                        @@ Ended("extend_share", share, plan, r, FALSE)
    /\ UNCHANGED cli_retry_time

OtherIp == <<"ip9">>

\* The export locations handed to manage_existing for a share of a protocol:
\* for NFS <ip>:/<pool path>/<name> (as create_share returns it),
\* <ip>:/<pool>/<name>, and a location with no ':/'; for CIFS \\<ip>\<name>.
Locations(share_proto) ==
    IF lower(share_proto) = <<"nfs">>
    THEN {ip \o <<":", "/">> \o TheListing[1].directory \o Slash \o name :
             ip \in {nas_ip, OtherIp}, name \in ShareIds}
         \cup {ip \o <<":", "/">> \o ThePool \o Slash \o name :
                  ip \in {nas_ip, OtherIp}, name \in ShareIds}
         \cup {nas_ip}
    ELSE {<<"\\", "\\">> \o ip \o <<"\\">> \o name :
             ip \in {nas_ip, OtherIp}, name \in ShareIds}

\* share['export_locations'][0]['path'] is the location.
ManagedShares ==
    UNION {[id : ShareIds, host : {HostOf(ThePool)}, share_proto : {proto},
            size : {1}, export_locations : {<<[path |-> l]>> : l \in Locations(proto)}]
           : proto \in {<<"NFS">>, <<"CIFS">>}}

ManageExisting ==
    /\ last.op = "idle"
    /\ \E share \in ManagedShares, plan \in Plans(2) :
         \E r \in {manage_existing(World(plan), share)} :
         /\ ssh' = r.ssh
         /\ pool_dict' = r.pool_dict
         /\ app' = r.app
         /\ last' = [info |-> r.info]
                        @@ Ended("manage_existing", share, plan, r, FALSE)
    /\ UNCHANGED cli_retry_time

LongId == <<"a7b933e6-bb77-4823-a86f-f2c3ab41a8a5">>

\* unmanage reads the host and the id of the share only.
UnmanagedShares ==
    DeletedShares \cup
        {[id |-> LongId, host |-> HostOf(ThePool), share_proto |-> <<"NFS">>,
          size |-> 1]}

Unmanage ==
    /\ last.op = "idle"
    /\ \E share \in UnmanagedShares, plan \in Plans(1) :
         \E r \in {unmanage(World(plan), share)} :
         /\ ssh' = r.ssh
         /\ pool_dict' = r.pool_dict
         /\ app' = r.app
         /\ last' = [info |-> r.info]
                        @@ Ended("unmanage", share, plan, r, FALSE)
    /\ UNCHANGED cli_retry_time

\* ensure_share reads the host, the id and the protocol of the share only.
EnsureShare ==
    /\ last.op = "idle"
    /\ \E share \in {x \in Shares : x.size = 1} :
         \E r \in {ensure_share(World(NoFault), share)} :
         /\ ssh' = r.ssh
         /\ pool_dict' = r.pool_dict
         /\ app' = r.app
         /\ last' = Ended("ensure_share", share, NoFault, r, FALSE)
    /\ UNCHANGED cli_retry_time

Next ==
    \/ Setup \/ CreateShare \/ DeleteShare \/ DeleteAgain \/ ParseLocation
    \/ ExtendShare \/ ManageExisting \/ Unmanage \/ EnsureShare \/ Forget

Spec == Init /\ [][Next]_vars

----------------------------------------------------------------------------
(* Claims about the share lifecycle *)

\* The folder of a share on the configured pool.
FolderOf(share) == TheListing[1].directory \o Slash \o share.id

Populated == {"id", "path"} \subseteq DOMAIN pool_dict[ThePool]

\* Every command of the call was executed by the appliance (return code 0).
Answered(plan) ==
    \/ plan.fate \in {"ok", "fixture"}
    \/ plan.fate = "retry" /\ Total(cli_retry_time) >= 2

\* The commands of a log, as the appliance reads them.
Commands(log) == [i \in DOMAIN log |-> ParseCommand(log[i])]

\* The places of the log where the appliance reads a command of kind k.
Issued(log, k) == {i \in DOMAIN log : Commands(log)[i].k = k}

\* C3: delete_share of a share that is not in the pool's directory listing
\* issues no folder-delete command and returns successfully, and a second
\* delete_share in a row on the same share never fails (the appliance
\* executing every command).
C3_DeleteIdempotent ==
    ( /\ last.op = "delete_share"
      /\ Populated
      /\ Answered(last.plan)
      /\ (last.again \/ FolderOf(last.share) \notin DOMAIN last.app0.folders) )
    => /\ last.exc = "none"
       /\ FolderOf(last.share) \notin DOMAIN last.app0.folders
            => \A i \in DOMAIN last.log : Commands(last.log)[i].k # "delete"

\* C9: the export location create_share returned for share id S, parsed by
\* _parse_location for the same protocol, gives back S and the appliance IP.
C9_LocationRoundTrip ==
    last.op = "_parse_location" =>
        /\ last.exc = "none"
        /\ last.ret.ift_share_name = last.share.id
        /\ last.ret.ip = nas_ip

\* C10: create_share issues the folder-create command for the share id under
\* the resolved pool before the quota-set command, the quota-set only after
\* the folder was created and with the share's size in GB, and returns the
\* export location only after both commands were executed.
C10_CreateThenQuota ==
    last.op = "create_share" =>
        LET cs == Commands(last.log)
            creates == {i \in DOMAIN cs : cs[i].k = "create"}
            quotas == {i \in DOMAIN cs : cs[i].k = "quota_set"}
            path == FolderOf(last.share)
        IN  /\ \A i \in creates :
                 /\ cs[i].name = last.share.id
                 /\ cs[i].pool = ThePool
                 /\ cs[i].id = TheListing[1].volumeId
            /\ \A j \in quotas :
                 /\ creates # {}
                 /\ \A i \in creates : i < j
                 /\ path \in DOMAIN app.folders
                 /\ path \notin DOMAIN last.app0.folders
                 /\ cs[j].name = last.share.id
                 /\ cs[j].size = <<ToString(last.share.size), "G">>
            /\ last.exc = "none" =>
                 /\ creates # {} /\ quotas # {}
                 /\ path \in DOMAIN app.folders
                 /\ app.folders[path].quota = last.share.size

C10_Witness ==
    /\ last.op = "create_share" /\ last.exc = "none"
    /\ last.share.size = 2
    /\ last.plan = [cmd |-> 2, fate |-> "retry"]
    /\ Len(last.log) = 3
    /\ last.ret = <<nas_ip \o <<":", "/", "/", "LV-1", "/", "p1", "/", "s1">>>>

\* C27: create_share for a share whose protocol is neither NFS nor CIFS never
\* returns an export location, and fails with InvalidInput ("Unsupported
\* protocol") when the appliance executes the commands sent to it.
C27_UnsupportedProtocolFails ==
    (last.op = "create_share" /\ last.share.share_proto = <<"FTP">>) =>
        /\ last.exc # "none"
        /\ ( /\ Populated
             /\ Answered(last.plan)
             /\ FolderOf(last.share) \notin DOMAIN last.app0.folders )
           => last.exc = "InvalidInput"

C27_Witness ==
    /\ last.op = "create_share"
    /\ last.share.share_proto = <<"FTP">>
    /\ last.plan = NoFault
    /\ last.exc = "InvalidInput"
    /\ Len(last.log) = 2
    /\ FolderOf(last.share) \in DOMAIN app.folders

\* C38: create_share of a share whose protocol is neither NFS nor CIFS fails
\* without having issued a command: the appliance is as it was, with no
\* folder created and no quota set for the share id.
C38_UnsupportedIssuesNothing ==
    (last.op = "create_share" /\ last.share.share_proto = <<"FTP">>) =>
        /\ last.exc # "none"
        /\ last.log = <<>>
        /\ app = last.app0

\* C32: when the folder-create of create_share is executed and the quota-set
\* then fails on every attempt, create_share fails and issues no
\* folder-delete: the folder stays on the appliance without the quota asked
\* for.
C32_NoRollback ==
    ( /\ last.op = "create_share"
      /\ Populated
      /\ FolderOf(last.share) \notin DOMAIN last.app0.folders
      /\ last.plan = [cmd |-> 2, fate |-> "fail"] )
    => /\ last.exc # "none"
       /\ Issued(last.log, "create") # {}
       /\ Issued(last.log, "quota_set") # {}
       /\ Issued(last.log, "delete") = {}
       /\ FolderOf(last.share) \in DOMAIN app.folders
       /\ app.folders[FolderOf(last.share)].quota # last.share.size

C32_Witness ==
    /\ last.op = "create_share"
    /\ last.plan = [cmd |-> 2, fate |-> "fail"]
    /\ Total(cli_retry_time) = 2
    /\ Len(last.log) = 3
    /\ last.exc # "none"
    /\ FolderOf(last.share) \notin DOMAIN last.app0.folders
    /\ FolderOf(last.share) \in DOMAIN app.folders

C11_ExtendSetsQuota ==
    ( /\ last.op = "extend_share"
      /\ Populated
      /\ last.plan = NoFault
      /\ FolderOf(last.share) \in DOMAIN last.app0.folders )
    => /\ Len(last.log) = 1
       /\ Issued(last.log, "quota_set") = {1}
       /\ Commands(last.log)[1].name = last.share.id
       /\ Commands(last.log)[1].size = <<ToString(last.new_size), "G">>
       /\ app.folders[FolderOf(last.share)].quota = last.new_size
       /\ last.exc = "none"

\* The folder of the pool with a name.
FolderNamed(name) == TheListing[1].directory \o Slash \o name

\* C12: when manage_existing returns successfully, the share id names a
\* folder of the pool (the export location returned names a share that
\* exists), and when the name recovered from the export location is another
\* one, the rename command from that name to the share id was issued and no
\* folder has the recovered name any more.
C12_ManageRenames ==
    (last.op = "manage_existing" /\ last.exc = "none") =>
        /\ FolderOf(last.share) \in DOMAIN app.folders
        /\ last.info.ift_share_name # last.share.id =>
              /\ \E i \in Issued(last.log, "rename") :
                    /\ Commands(last.log)[i].name = last.info.ift_share_name
                    /\ Commands(last.log)[i].new = last.share.id
              /\ FolderNamed(last.info.ift_share_name) \notin DOMAIN app.folders

C13_UnmanageRenames ==
    ( /\ last.op = "unmanage"
      /\ Populated
      /\ last.plan = NoFault )
    => /\ last.exc = "none"
       /\ FolderOf(last.share) \in DOMAIN last.app0.folders =>
             /\ FolderOf(last.share) \notin DOMAIN app.folders
             /\ FolderNamed(unmanage_name(last.share.id)) \in DOMAIN app.folders
       /\ FolderOf(last.share) \notin DOMAIN last.app0.folders =>
             Issued(last.log, "rename") = {}

\* C14: manage_existing fails with InfortrendNASException before any command
\* is issued when the ip parsed from the export location is not the
\* appliance's; it fails, with no quota-read and no rename issued, when the
\* share name recovered is not in the pool's listing (with
\* InfortrendNASException when the listing was answered normally).
C14_ManageRejects ==
    (last.op = "manage_existing" /\ last.info # None) =>
        /\ last.info.ip # nas_ip =>
              /\ last.exc = "InfortrendNASException"
              /\ last.log = <<>>
              /\ app = last.app0
        /\ ( /\ last.info.ip = nas_ip
             /\ FolderNamed(last.info.ift_share_name) \notin DOMAIN last.app0.folders )
           => /\ last.exc # "none"
              /\ Issued(last.log, "quota_get") = {}
              /\ Issued(last.log, "rename") = {}
              /\ last.plan = NoFault => last.exc = "InfortrendNASException"

C14_Witness ==
    /\ last.op = "manage_existing"
    /\ last.share.share_proto = <<"CIFS">>
    /\ last.share.id = <<"s2">>
    /\ last.info = [ip |-> OtherIp, ift_share_name |-> <<"s1">>]
    /\ FolderNamed(<<"s1">>) \in DOMAIN last.app0.folders
    /\ last.exc = "InfortrendNASException"
    /\ last.log = <<>>

----------------------------------------------------------------------------
(* SpecPools: get_pool on a driver set up with two pools, each share folder *)
(* present on any of the pools.                                             *)

\* 'size' and 'free' of the two pools of fake_folder_status_data, digit by
\* digit, and of a pool of 1083741824 bytes of which 1024 are free.
Capacities ==
    { [size |-> <<"3", "2", "1", "9", "6", "5", "2", "6", "0", "8", "0", "0">>,
       free |-> <<"3", "2", "1", "9", "3", "1", "3", "7", "4", "5", "9", "2">>],
      [size |-> <<"1", "0", "7", "3", "2", "1", "7", "5", "3", "6", "0", "0">>,
       free |-> <<"1", "0", "7", "2", "8", "7", "9", "7", "3", "8", "8", "8">>],
      [size |-> <<"1", "0", "8", "3", "7", "4", "1", "8", "2", "4">>,
       free |-> <<"1", "0", "2", "4">>] }

\* The two pools as "folder status" lists them, the first with capacity cap.
PoolsListing(cap) ==
    <<[directory |-> Dir("LV-1", <<"p1">>), volumeId |-> <<"id1">>,
       size |-> cap.size, free |-> cap.free],
      [directory |-> Dir("LV-1", <<"p2">>), volumeId |-> <<"id2">>,
       size |-> <<"1", "0", "7", "3", "2", "1", "7", "5", "3", "6", "0", "0">>,
       free |-> <<"1", "0", "7", "2", "8", "7", "9", "7", "3", "8", "8", "8">>]>>

\* pool_dict as _check_pools_setup leaves it for the two pools
PoolsDict ==
    [n \in PoolNames |->
        [id |-> IF n = <<"p1">> THEN <<"id1">> ELSE <<"id2">>,
         path |-> Dir("LV-1", n)]]

PoolFolder(pool, id) == Dir("LV-1", pool) \o Slash \o id

\* share['host'] without a pool: nothing after the backend, or an empty pool
NoPoolHosts == {<<"host@ift">>, <<"host@ift", "#">>}

PoolShares ==
    [id : ShareIds,
     host : {HostOf(n) : n \in PoolNames} \cup NoPoolHosts]

\* The lists a set may be in: the orders keys() can give.
Orders(S) ==
    {s \in [1..Cardinality(S) -> S] : \A i, j \in DOMAIN s : s[i] = s[j] => i = j}

InitPools ==
    /\ cli_retry_time \in ConfiguredRetries
    /\ ssh = "none"
    /\ pool_dict = PoolsDict
    /\ \E present \in SUBSET {PoolFolder(n, id) : n \in PoolNames, id \in ShareIds},
          cap \in Capacities :
         app = [listing |-> PoolsListing(cap),
                folders |-> [f \in present |-> NewFolder], users |-> {}]
    /\ last = Idle

GetPool ==
    /\ last.op = "idle"
    /\ \E share \in PoolShares, keys \in Orders(DOMAIN pool_dict),
          plan \in Plans(2) :
         \E r \in {get_pool(World(plan), share, keys)} :
         /\ ssh' = r.ssh
         /\ pool_dict' = r.pool_dict
         /\ app' = r.app
         /\ last' = [op |-> "get_pool", share |-> share, keys |-> keys,
                     plan |-> plan, app0 |-> app, exc |-> r.exc,
                     ret |-> r.ret, log |-> r.log]
    /\ UNCHANGED cli_retry_time

UpdatePoolsStats ==
    /\ last.op = "idle"
    /\ \E plan \in Plans(1) :
         \E r \in {update_pools_stats(World(plan))} :
         /\ ssh' = r.ssh
         /\ pool_dict' = r.pool_dict
         /\ app' = r.app
         /\ last' = [op |-> "update_pools_stats", plan |-> plan, app0 |-> app,
                     exc |-> r.exc, ret |-> r.ret, log |-> r.log]
    /\ UNCHANGED cli_retry_time

NextPools == GetPool \/ UpdatePoolsStats \/ Forget

SpecPools == InitPools /\ [][NextPools]_vars

\* The places of the key list whose pool holds a folder named by the share id.
Holders(keys, share, a) ==
    {i \in DOMAIN keys : PoolFolder(keys[i], share.id) \in DOMAIN a.folders}

\* The directories whose listing was asked for.
Probed(log) == {Commands(log)[i].path : i \in Issued(log, "pagelist")}

\* C26: get_pool returns the pool encoded in the share's host without any
\* appliance command; with no pool encoded it asks for the listings of the
\* configured pools in turn, returns the first pool that holds a folder named
\* by the share id, asking for no listing after that pool's, and returns an
\* empty result when no pool holds one (the appliance executing every
\* command).
C26_GetPool ==
    last.op = "get_pool" =>
        /\ \A n \in PoolNames : last.share.host = HostOf(n) =>
              /\ last.exc = "none"
              /\ last.ret = Text(n)
              /\ last.log = <<>>
        /\ (last.share.host \in NoPoolHosts /\ Answered(last.plan)) =>
              LET held == Holders(last.keys, last.share, last.app0)
                  upto == IF held = {} THEN Len(last.keys)
                          ELSE CHOOSE i \in held : \A j \in held : i <= j
              IN  /\ last.exc = "none"
                  /\ IF held = {} THEN Falsy(last.ret)
                     ELSE last.ret = Text(last.keys[upto])
                  /\ Probed(last.log)
                       = {Dir("LV-1", last.keys[i]) : i \in 1..upto}

----------------------------------------------------------------------------
(* SpecAccess: access rules updated on a share that exists on the pool.    *)
(* The share was created with one protocol, so the folder tells the share: *)
(* s1 is an NFS share (protocol given as "nfs"), s2 a CIFS share ("cifs"), *)
(* s3 and s4 an NFS and a CIFS share whose protocol is given in capitals.   *)

Share(id, proto) ==
    [id |-> id, host |-> HostOf(ThePool), share_proto |-> proto, size |-> 1]

AccessShares ==
    {Share(<<"s1">>, <<"nfs">>), Share(<<"s2">>, <<"cifs">>),
     Share(<<"s3">>, <<"NFS">>), Share(<<"s4">>, <<"CIFS">>)}

Rule(type, to, level) ==
    [access_type |-> type, access_to |-> to, access_level |-> level]

\* The rules a caller hands over for a share: three of the type its protocol
\* takes, one of the other type.
RulesFor(share) ==
    IF lower(share.share_proto) = <<"nfs">>
    THEN {Rule("ip", <<"h1">>, ACCESS_LEVEL_RW), Rule("ip", <<"h1">>, ACCESS_LEVEL_RO),
          Rule("ip", <<"h2">>, ACCESS_LEVEL_RW), Rule("user", <<"u1">>, ACCESS_LEVEL_RW)}
    ELSE {Rule("user", <<"u1">>, ACCESS_LEVEL_RW), Rule("user", <<"u1">>, ACCESS_LEVEL_RO),
          Rule("user", <<"u2">>, ACCESS_LEVEL_RW), Rule("ip", <<"h1">>, ACCESS_LEVEL_RW)}

\* A share has at most one rule for an access target.
DistinctTargets(q) ==
    \A i, j \in DOMAIN q : q[i].access_to = q[j].access_to => i = j

RuleLists(R, n) ==
    UNION {{q \in [1..k -> R] : DistinctTargets(q)} : k \in 0..n}

\* The folder of a share whose protocol is on or off, with the grants found
\* on it.
SharedFolder(share, on, grants) ==
    IF lower(share.share_proto) = <<"nfs">>
    THEN [quota |-> 1, nfs |-> on, cifs |-> FALSE, users |-> EmptyMap,
          hosts |-> IF on THEN Put(grants, Star, "ro") ELSE grants]
    ELSE [quota |-> 1, nfs |-> FALSE, cifs |-> on, hosts |-> EmptyMap,
          users |-> grants]

GrantsFound(share) ==
    IF lower(share.share_proto) = <<"nfs">>
    THEN {EmptyMap, (<<"h2">> :> "rw")}
    ELSE {EmptyMap, (<<"u2">> :> "f")}

InitAccess ==
    /\ cli_retry_time = [none |-> FALSE, n |-> 1]
    /\ ssh = "open"
    /\ pool_dict = StorePool(InitPoolDict({ThePool}), ThePool,
                             TheListing[1].volumeId, TheListing[1].directory)
    /\ \E share \in AccessShares, on \in BOOLEAN :
         \E grants \in GrantsFound(share), users \in {{<<"u1">>, <<"u2">>}, {<<"u1">>}} :
            app = [listing |-> TheListing, users |-> users,
                   folders |-> (FolderOf(share) :> SharedFolder(share, on, grants))]
    /\ last = Idle

\* The answers of the appliance explored for an update_access.
AccessPlans ==
    {NoFault, [cmd |-> 1, fate |-> "fixture"]}
        \cup [cmd : {1, 2, 4}, fate : {"fail"}]

\* access_rules of a call with add_rules: the rules added, alone or after
\* one rule the share has already.
AllRules(share, add_rules) ==
    {add_rules} \cup
    {q \in {<<r>> \o add_rules : r \in RulesFor(share)} : DistinctTargets(q)}

UpdateAccess ==
    /\ last.op = "idle"
    /\ \E share \in {x \in AccessShares : FolderOf(x) \in DOMAIN app.folders} :
       \E delete_rules \in RuleLists(RulesFor(share), MaxRules) :
       \E add_rules \in RuleLists(RulesFor(share), MaxRules - Len(delete_rules)) :
       \E access_rules \in IF add_rules = <<>> /\ delete_rules = <<>>
                           THEN RuleLists(RulesFor(share), MaxRules)
                           ELSE AllRules(share, add_rules) :
       \E plan \in AccessPlans :
       \E r \in {update_access(World(plan), share, access_rules, add_rules,
                                 delete_rules)} :
         /\ ssh' = r.ssh
         /\ pool_dict' = r.pool_dict
         /\ app' = r.app
         /\ last' = [op |-> "update_access", share |-> share,
                     access_rules |-> access_rules, add_rules |-> add_rules,
                     delete_rules |-> delete_rules, plan |-> plan,
                     app0 |-> app, exc |-> r.exc, ret |-> r.ret,
                     log |-> r.log, trace |-> r.trace]
    /\ UNCHANGED cli_retry_time

\* What is kept of an allow_access or deny_access.
EndedAccess(op, share, access, plan, r) ==
    [op |-> op, share |-> share, access |-> access, plan |-> plan,
     app0 |-> app, exc |-> r.exc, ret |-> r.ret, log |-> r.log,
     trace |-> r.trace]

\* The rules handed to allow_access: for a CIFS share also one whose access
\* level is neither rw nor ro.
AllowRulesFor(share) ==
    IF lower(share.share_proto) = <<"cifs">>
    THEN RulesFor(share) \cup {Rule("user", <<"u1">>, <<"rwx">>)}
    ELSE RulesFor(share)

AllowAccess ==
    /\ last.op = "idle"
    /\ \E share \in {x \in AccessShares : FolderOf(x) \in DOMAIN app.folders} :
       \E access \in AllowRulesFor(share), plan \in Plans(4) :
       \E r \in {allow_access(World(plan), share, access)} :
         /\ ssh' = r.ssh
         /\ pool_dict' = r.pool_dict
         /\ app' = r.app
         /\ last' = EndedAccess("allow_access", share, access, plan, r)
    /\ UNCHANGED cli_retry_time

DenyAccess ==
    /\ last.op = "idle"
    /\ \E share \in {x \in AccessShares : FolderOf(x) \in DOMAIN app.folders} :
       \E access \in RulesFor(share), plan \in Plans(1) :
       \E r \in {deny_access(World(plan), share, access)} :
         /\ ssh' = r.ssh
         /\ pool_dict' = r.pool_dict
         /\ app' = r.app
         /\ last' = EndedAccess("deny_access", share, access, plan, r)
    /\ UNCHANGED cli_retry_time

NextAccess == UpdateAccess \/ AllowAccess \/ DenyAccess \/ Forget

SpecAccess == InitAccess /\ [][NextAccess]_vars

----------------------------------------------------------------------------
(* Claims about access control *)

\* The places of the trace where f was called / returned.
Calls(tr, f) == {i \in DOMAIN tr : tr[i].f = f /\ tr[i].ev = "call"}
Returns(tr, f) == {i \in DOMAIN tr : tr[i].f = f /\ tr[i].ev = "return"}

RECURSIVE Pick(_, _, _)
\* The rules of the trace events at the places of I from place i on, in order.
Pick(tr, I, i) ==
    IF i > Len(tr) THEN <<>>
    ELSE IF i \in I THEN <<tr[i].access>> \o Pick(tr, I, i + 1)
    ELSE Pick(tr, I, i + 1)

\* The rules f was called with, in the order of the calls.
CalledWith(tr, f) == Pick(tr, Calls(tr, f), 1)

\* Command c takes the grant of the rule's target on the share away.
Revokes(c, share, rule) ==
    \/ /\ c.k = "revoke" /\ lower(share.share_proto) = <<"nfs">>
       /\ c.path = FolderOf(share) /\ c.host = rule.access_to
    \/ /\ c.k = "acl" /\ lower(share.share_proto) = <<"cifs">>
       /\ c.path = FolderOf(share) /\ c.user = rule.access_to
       /\ c.level = <<"d">>

\* Command c takes a grant away.
IsRevoke(c) == c.k = "revoke" \/ (c.k = "acl" /\ c.level = <<"d">>)

\* Command c grants something on a share, or turns a protocol on.
Grants(c) ==
    \/ c.k \in {"grant", "proto_on"}
    \/ c.k = "acl" /\ c.level # <<"d">>

IsPrefix(p, q) == Len(p) <= Len(q) /\ p = SubSeq(q, 1, Len(p))

\* C4: in update_access with add_rules or delete_rules not empty, when an
\* allow_access is invoked every rule of delete_rules has had its deny_access
\* invoked and returned, and its revoke command issued, before; no
\* deny_access comes after an allow_access; the rules are taken in order.
C4_DenyBeforeAllow ==
    ( /\ last.op = "update_access"
      /\ (last.add_rules # <<>> \/ last.delete_rules # <<>>) )
    => LET tr == last.trace
           cs == Commands(last.log)
       IN  /\ Calls(tr, "_clear_access") = {}
           /\ IsPrefix(CalledWith(tr, "deny_access"), last.delete_rules)
           /\ IsPrefix(CalledWith(tr, "allow_access"), last.add_rules)
           /\ last.exc = "none" =>
                 /\ CalledWith(tr, "deny_access") = last.delete_rules
                 /\ CalledWith(tr, "allow_access") = last.add_rules
           /\ \A i \in Calls(tr, "allow_access") :
                 /\ \A j \in Calls(tr, "deny_access") \cup Returns(tr, "deny_access") :
                       j < i
                 /\ Cardinality(Returns(tr, "deny_access")) = Len(last.delete_rules)
                 /\ \A d \in DOMAIN last.delete_rules :
                       \E k \in 1..tr[i].at :
                          Revokes(cs[k], last.share, last.delete_rules[d])
                 /\ \A k \in DOMAIN cs : IsRevoke(cs[k]) => k <= tr[i].at

C4_Witness ==
    /\ last.op = "update_access" /\ last.exc = "none"
    /\ last.share.share_proto = <<"nfs">>
    /\ last.delete_rules = <<Rule("ip", <<"h1">>, ACCESS_LEVEL_RW)>>
    /\ last.add_rules = <<Rule("ip", <<"h1">>, ACCESS_LEVEL_RO)>>
    /\ last.app0.folders[FolderOf(last.share)].hosts =
          (<<"h1">> :> "rw") @@ (Star :> "ro")
    /\ app.folders[FolderOf(last.share)].hosts =
          (<<"h1">> :> "ro") @@ (Star :> "ro")

\* C5: in update_access with add_rules and delete_rules empty, _clear_access
\* is called first and has returned before any allow_access is called and
\* before any grant command is issued, no revoke command is issued after
\* it returned, and allow_access is called once for each rule of
\* access_rules, in list order.
C5_ClearThenAllow ==
    ( /\ last.op = "update_access"
      /\ last.add_rules = <<>> /\ last.delete_rules = <<>> )
    => LET tr == last.trace
           cs == Commands(last.log)
       IN  /\ Calls(tr, "deny_access") = {}
           /\ Calls(tr, "_clear_access") = {1}
           /\ IsPrefix(CalledWith(tr, "allow_access"), last.access_rules)
           /\ last.exc = "none" =>
                 CalledWith(tr, "allow_access") = last.access_rules
           /\ Calls(tr, "allow_access") # {} => Returns(tr, "_clear_access") = {2}
           /\ \A k \in DOMAIN cs :
                 /\ Grants(cs[k]) =>
                       /\ Returns(tr, "_clear_access") = {2}
                       /\ k > tr[2].at
                 /\ IsRevoke(cs[k]) =>
                       (Returns(tr, "_clear_access") = {2} => k <= tr[2].at)

C5_Witness ==
    /\ last.op = "update_access" /\ last.exc = "none"
    /\ last.add_rules = <<>> /\ last.delete_rules = <<>>
    /\ Len(last.access_rules) = 2
    /\ last.share.share_proto = <<"cifs">>
    /\ DOMAIN last.app0.folders[FolderOf(last.share)].users = {<<"u1">>, <<"u2">>}
    /\ \E k \in DOMAIN last.log : IsRevoke(Commands(last.log)[k])

\* The grants the rules ask for on a share: target -> level as the
\* appliance keeps it.
Asked(share, rules) ==
    [to \in {rules[i].access_to : i \in DOMAIN rules} |->
        LET rule == rules[CHOOSE i \in DOMAIN rules : rules[i].access_to = to] IN
        IF lower(share.share_proto) = <<"nfs">>
        THEN rule.access_level[1]
        ELSE IF rule.access_level = <<"rw">> THEN "f" ELSE "r"]

\* The grants on the share for its protocol, the default grant left out.
Granted(a, share) ==
    IF lower(share.share_proto) = <<"nfs">>
    THEN Remove(a.folders[FolderOf(share)].hosts, Star)
    ELSE a.folders[FolderOf(share)].users

\* C6: after a full resync (update_access with add_rules and delete_rules
\* empty) returned successfully, the grants on the share for its protocol,
\* the default grant aside, are exactly the rules of access_rules, each at
\* its level.
C6_ResyncExact ==
    ( /\ last.op = "update_access"
      /\ last.add_rules = <<>> /\ last.delete_rules = <<>>
      /\ last.exc = "none" )
    => Granted(app, last.share) = Asked(last.share, last.access_rules)

C6_Witness ==
    /\ last.op = "update_access" /\ last.exc = "none"
    /\ last.add_rules = <<>> /\ last.delete_rules = <<>>
    /\ last.share.share_proto = <<"nfs">>
    /\ last.access_rules = <<Rule("ip", <<"h1">>, ACCESS_LEVEL_RO)>>
    /\ Granted(last.app0, last.share) = (<<"h1">> :> "rw") @@ (<<"h2">> :> "rw")
    /\ Granted(app, last.share) = (<<"h1">> :> "ro")

\* The share of the call is an NFS / a CIFS share.
IsNfs(share) == lower(share.share_proto) = <<"nfs">>
IsCifs(share) == lower(share.share_proto) = <<"cifs">>

\* C15: allow_access on an NFS share (an ip rule, every command answered
\* normally) queries the share's protocol state first, sends the
\* protocol-enable command if and only if NFS was disabled for the share, and
\* NFS is enabled for the share once the grant command has been issued.
C15_ProtocolOnBeforeGrant ==
    ( /\ last.op = "allow_access"
      /\ IsNfs(last.share)
      /\ last.access.access_type = "ip"
      /\ last.plan = NoFault )
    => LET path == FolderOf(last.share) IN
       /\ 1 \in Issued(last.log, "share_status")
       /\ (Issued(last.log, "proto_on") # {}) <=> ~last.app0.folders[path].nfs
       /\ Issued(last.log, "grant") # {}
       /\ \A g \in Issued(last.log, "grant") :
             /\ \A o \in Issued(last.log, "proto_on") : o < g
             /\ app.folders[path].nfs

\* The access type of the rule is not the one the share's protocol takes.
Mismatch(share, access) ==
    \/ IsNfs(share) /\ access.access_type # "ip"
    \/ IsCifs(share) /\ access.access_type # "user"

\* C16: allow_access or deny_access with an access type that does not match
\* the share's protocol (NFS with a non-ip rule, CIFS with a non-user rule)
\* fails with InvalidShareAccess before any command is issued.
C16_IllegalAccessRejected ==
    ( /\ last.op \in {"allow_access", "deny_access"}
      /\ Mismatch(last.share, last.access) )
    => /\ last.exc = "InvalidShareAccess"
       /\ last.log = <<>>
       /\ app = last.app0

C16_Witness ==
    /\ last.op = "allow_access"
    /\ last.share.share_proto = <<"nfs">>
    /\ last.access = Rule("user", <<"u1">>, ACCESS_LEVEL_RW)
    /\ last.plan = NoFault
    /\ ~last.app0.folders[FolderOf(last.share)].nfs
    /\ last.exc = "InvalidShareAccess"
    /\ last.log = <<>>

\* Command c sets an acl for the user other than the denial.
IsAclGrant(c, user) == c.k = "acl" /\ c.user = user /\ c.level # <<"d">>

\* C17: allow_access on a CIFS share for a user that is not in the
\* appliance's user list fails with the unknown-user error
\* (InfortrendNASException) and issues no acl-set grant for that user.
C17_UnknownUserRejected ==
    ( /\ last.op = "allow_access"
      /\ IsCifs(last.share)
      /\ last.access.access_type = "user"
      /\ last.access.access_to \notin last.app0.users
      /\ last.plan = NoFault )
    => /\ last.exc = "InfortrendNASException"
       /\ \A i \in DOMAIN last.log :
             ~IsAclGrant(Commands(last.log)[i], last.access.access_to)

\* The places of the log of a full resync that _clear_access issued: from its
\* call to its return, or to the end when it raised.
ClearWindow ==
    LET tr == last.trace
        to == IF Returns(tr, "_clear_access") = {} THEN Len(last.log) ELSE tr[2].at
    IN  (tr[1].at + 1)..to

\* The hosts / users _clear_access asked the appliance to revoke, in order.
RECURSIVE Revoked(_, _)
Revoked(cs, I) ==
    IF I = {} THEN <<>>
    ELSE LET i == CHOOSE x \in I : \A y \in I : x <= y IN
         (IF cs[i].k = "revoke" THEN <<cs[i].host>>
          ELSE IF cs[i].k = "acl" /\ cs[i].level = <<"d">> THEN <<cs[i].user>>
          ELSE <<>>) \o Revoked(cs, I \ {i})

\* C18: _clear_access on an NFS share issues one revoke for each host of the
\* share's host list other than '*' and never revokes '*'; on a CIFS share
\* it issues one deny for every user of the share's user list.  (When it
\* stops at a command that failed, it has issued them for some of the hosts
\* or users, one each.)
C18_ClearRevokesAllButStar ==
    ( /\ last.op = "update_access"
      /\ last.add_rules = <<>> /\ last.delete_rules = <<>>
      /\ Calls(last.trace, "_clear_access") # {} )
    => LET f == last.app0.folders[FolderOf(last.share)]
           found == IF IsNfs(last.share) THEN DOMAIN f.hosts \ {Star}
                    ELSE DOMAIN f.users
           done == Revoked(Commands(last.log), ClearWindow)
       IN  /\ Injective(done)
           /\ Star \notin Range(done)
           /\ Range(done) \subseteq found
           /\ \A i \in ClearWindow :
                 /\ IsNfs(last.share) => Commands(last.log)[i].k \in {"share_status", "revoke"}
                 /\ IsCifs(last.share) => Commands(last.log)[i].k \in {"share_status", "acl"}
           /\ Returns(last.trace, "_clear_access") # {} => Range(done) = found

C18_Witness ==
    /\ last.op = "update_access" /\ last.exc = "none"
    /\ last.add_rules = <<>> /\ last.delete_rules = <<>>
    /\ IsNfs(last.share)
    /\ DOMAIN last.app0.folders[FolderOf(last.share)].hosts =
          {<<"h1">>, <<"h2">>, Star}
    /\ Range(Revoked(Commands(last.log), ClearWindow)) = {<<"h1">>, <<"h2">>}
    /\ Len(Revoked(Commands(last.log), ClearWindow)) = 2
    /\ Star \in DOMAIN app.folders[FolderOf(last.share)].hosts

\* The appliance takes the revoke of the rule: it executes the command sent
\* to it and, for an acl, knows the user.
Accepts(share, access, plan, a) ==
    /\ Answered(plan)
    /\ IsCifs(share) => access.access_to \in a.users

\* C28: deny_access issues one command only, the revoke that fits the share's
\* protocol (the host removal for NFS, the acl denial for CIFS), with no query
\* before it, and returns successfully whenever the appliance accepts that
\* command, also for a rule that was never granted.
C28_DenyIsOneRevoke ==
    (last.op = "deny_access" /\ ~Mismatch(last.share, last.access)) =>
        /\ Len(last.log) <= 1
        /\ \A i \in DOMAIN last.log :
              Revokes(Commands(last.log)[i], last.share, last.access)
        /\ Accepts(last.share, last.access, last.plan, last.app0) =>
              /\ last.exc = "none"
              /\ Len(last.log) = 1

C28_Witness ==
    /\ last.op = "deny_access"
    /\ last.share.share_proto = <<"CIFS">>
    /\ last.access.access_to = <<"u1">>
    /\ last.plan = NoFault
    /\ <<"u1">> \notin DOMAIN Granted(last.app0, last.share)
    /\ last.exc = "none"
    /\ Len(last.log) = 1

\* C29: allow_access on a CIFS share for a user the appliance knows (every
\* command answered normally) issues the acl grant with level f for access
\* level rw and r for access level ro, and with any other access level fails
\* with InvalidInput without issuing a grant.
C29_CifsLevelMapping ==
    ( /\ last.op = "allow_access"
      /\ IsCifs(last.share)
      /\ last.access.access_type = "user"
      /\ last.access.access_to \in last.app0.users
      /\ last.plan = NoFault )
    => LET cs == Commands(last.log)
           grants == {i \in DOMAIN cs : IsAclGrant(cs[i], last.access.access_to)}
           level == last.access.access_level
       IN  IF level \in {ACCESS_LEVEL_RW, ACCESS_LEVEL_RO}
           THEN /\ last.exc = "none"
                /\ grants # {}
                /\ \A i \in grants :
                      cs[i].level = IF level = ACCESS_LEVEL_RW THEN <<"f">> ELSE <<"r">>
           ELSE /\ last.exc = "InvalidInput"
                /\ grants = {}

\* The capacity update_pools_stats reported for the pool listed with the
\* size given is gb hundredths of a GiB.
Converts(size, gb) ==
    (last.op = "update_pools_stats" /\ last.exc = "none") =>
        \A i \in DOMAIN last.app0.listing :
            last.app0.listing[i].size = size =>
                /\ i \in DOMAIN last.ret
                /\ last.ret[i].total_capacity_gb = gb

\* C30: the conversion of a byte count to GiB for the pool statistics (divide
\* by 2^30, round to 2 decimals) takes a reported size of 321965260800 bytes
\* to 299.93.
C30_Size299_93 ==
    Converts(<<"3", "2", "1", "9", "6", "5", "2", "6", "0", "8", "0", "0">>, 29993)

\* C30 amended: the conversion takes 321965260800 bytes to 299.85.
C30_Size299_85 ==
    Converts(<<"3", "2", "1", "9", "6", "5", "2", "6", "0", "8", "0", "0">>, 29985)

C30_Witness ==
    /\ last.op = "update_pools_stats" /\ last.exc = "none"
    /\ last.app0.listing[1].size
         = <<"3", "2", "1", "9", "6", "5", "2", "6", "0", "8", "0", "0">>
    /\ last.ret[1].pool_name = <<"p1">>
    /\ last.ret[1].total_capacity_gb = 29985
    /\ last.ret[1].free_capacity_gb = 29982
    /\ last.ret[2].total_capacity_gb = 9995

\* C31: when a command of an access operation fails on all its attempts,
\* the operation ends with an exception and that command is the last one
\* issued; in update_access a revoke that failed is followed by no grant.
C31_FailureStopsOperation ==
    ( /\ last.op \in {"update_access", "allow_access", "deny_access"}
      /\ last.plan.fate = "fail"
      /\ Len(last.log) >= last.plan.cmd )
    => /\ last.exc # "none"
       /\ Len(last.log) = last.plan.cmd
       /\ IsRevoke(Commands(last.log)[last.plan.cmd]) =>
             \A i \in DOMAIN last.log : ~Grants(Commands(last.log)[i])

C31_Witness ==
    /\ last.op = "update_access"
    /\ Len(last.delete_rules) = 1 /\ Len(last.add_rules) = 1
    /\ last.plan = [cmd |-> 1, fate |-> "fail"]
    /\ last.exc # "none"
    /\ Len(last.log) = 1
    /\ Revokes(Commands(last.log)[1], last.share, last.delete_rules[1])
    /\ app = last.app0

\* The share's protocol is enabled on its folder.
ProtocolOn(a, share) ==
    IF IsNfs(share) THEN a.folders[FolderOf(share)].nfs
    ELSE a.folders[FolderOf(share)].cifs

\* C33: a full resync on a share whose protocol is not enabled, so that the
\* status reply has no nfs_detail / cifs_detail, completes successfully (the
\* rules of the type the protocol takes, the users known, every command
\* answered normally): clearing revokes nothing and every rule of
\* access_rules is applied.
C33_ResyncProtocolOff ==
    ( /\ last.op = "update_access"
      /\ last.add_rules = <<>> /\ last.delete_rules = <<>>
      /\ ~ProtocolOn(last.app0, last.share)
      /\ last.plan = NoFault
      /\ \A i \in DOMAIN last.access_rules :
            /\ ~Mismatch(last.share, last.access_rules[i])
            /\ IsCifs(last.share) =>
                  last.access_rules[i].access_to \in last.app0.users )
    => /\ last.exc = "none"
       /\ \A i \in DOMAIN last.log : ~IsRevoke(Commands(last.log)[i])
       /\ \A i \in DOMAIN last.access_rules :
             \E j \in DOMAIN last.log :
                 LET c == Commands(last.log)[j] IN
                 \/ c.k = "grant" /\ c.host = last.access_rules[i].access_to
                 \/ IsAclGrant(c, last.access_rules[i].access_to)

\* The access targets of a list of rules.
Targets(rules) == {rules[i].access_to : i \in DOMAIN rules}

\* The grants of a share but those of the targets in T.
Others(grants, T) == [x \in DOMAIN grants \ T |-> grants[x]]

\* C34: in update_access with delete_rules or add_rules not empty, revokes
\* are issued only for targets of delete_rules and grants only for targets of
\* add_rules: nothing is cleared, access_rules is not applied again, and the
\* grants of every other host or user on the share are as they were.
C34_DeltaTouchesOnlyItsTargets ==
    ( /\ last.op = "update_access"
      /\ (last.add_rules # <<>> \/ last.delete_rules # <<>>) )
    => LET cs == Commands(last.log)
           named == Targets(last.delete_rules) \cup Targets(last.add_rules)
       IN  /\ Calls(last.trace, "_clear_access") = {}
           /\ \A i \in DOMAIN cs :
                 /\ IsRevoke(cs[i]) =>
                       \E d \in DOMAIN last.delete_rules :
                           Revokes(cs[i], last.share, last.delete_rules[d])
                 /\ cs[i].k = "grant" => cs[i].host \in Targets(last.add_rules)
                 /\ (cs[i].k = "acl" /\ ~IsRevoke(cs[i])) =>
                       cs[i].user \in Targets(last.add_rules)
           /\ Others(Granted(app, last.share), named)
                = Others(Granted(last.app0, last.share), named)

C34_Witness ==
    /\ last.op = "update_access" /\ last.exc = "none"
    /\ last.share.share_proto = <<"nfs">>
    /\ last.delete_rules = <<>>
    /\ Targets(last.add_rules) = {<<"h1">>}
    /\ Targets(last.access_rules) = {<<"h1">>, <<"h2">>}
    /\ DOMAIN Granted(last.app0, last.share) = {<<"h2">>}
    /\ DOMAIN Granted(app, last.share) = {<<"h1">>, <<"h2">>}
    /\ Granted(app, last.share)[<<"h2">>] = Granted(last.app0, last.share)[<<"h2">>]
    /\ Len(last.log) = 3


----------------------------------------------------------------------------
(* Concurrent callers of _ssh_execute on one backend instance.  A caller   *)
(* is suspended only inside a call of the transport: SSHPool.create() and   *)
(* processutils.ssh_execute(); the code between two such calls is one step. *)
(* The class takes no lock.  Here ssh holds the two attributes sshpool and  *)
(* ssh (0 for None, n for the n-th object built), app the sessions the      *)
(* appliance has accepted, in order, with whether each is still active, and *)
(* last where each caller is in _ssh_execute and what was sent over which   *)
(* session.                                                                 *)

Callers == {1, 2}

\* calls of _ssh_execute one caller makes
MaxCalls == 2

InitSessions ==
    /\ cli_retry_time = [none |-> TRUE, n |-> 0]
    /\ ssh = [sshpool |-> 0, ssh |-> 0]
    /\ pool_dict = <<>>
    /\ app = [sessions |-> <<>>]
    /\ last = [op |-> "_ssh_execute",
               pc |-> [t \in Callers |-> "idle"],
               calls |-> [t \in Callers |-> 0],
               failed |-> [t \in Callers |-> 0],
               sent |-> {}]

\* if not self.ssh.get_transport().is_active(): the branch names
\* self.ssh_pool, which no code assigns; otherwise the command goes out over
\* self.ssh and the caller waits for the reply.
ProbeAndSend(t, now, sessions) ==
    IF ~sessions[now]
    THEN [last EXCEPT !.pc[t] = "idle", !.calls[t] = @ + 1, !.failed[t] = @ + 1]
    ELSE [last EXCEPT !.pc[t] = "ssh_execute",
                      !.sent = @ \cup {[caller |-> t, session |-> now]}]

\* A caller enters _ssh_execute and finds no pool or no session: it builds
\* an SSHPool, assigns it to self.sshpool and calls create().
EnterCreate(t) ==
    /\ last.pc[t] = "idle"
    /\ last.calls[t] < MaxCalls
    /\ ~(ssh.sshpool # 0 /\ ssh.ssh # 0)
    /\ ssh' = [ssh EXCEPT !.sshpool = @ + 1]
    /\ last' = [last EXCEPT !.pc[t] = "create"]
    /\ UNCHANGED <<cli_retry_time, pool_dict, app>>

\* A caller enters _ssh_execute and finds a pool and a session.
EnterReuse(t) ==
    /\ last.pc[t] = "idle"
    /\ last.calls[t] < MaxCalls
    /\ ssh.sshpool # 0 /\ ssh.ssh # 0
    /\ last' = ProbeAndSend(t, ssh.ssh, app.sessions)
    /\ UNCHANGED <<cli_retry_time, ssh, pool_dict, app>>

\* create() returns a new session, which the caller assigns to self.ssh.
Created(t) ==
    /\ last.pc[t] = "create"
    /\ app' = [app EXCEPT !.sessions = Append(@, TRUE)]
    /\ ssh' = [ssh EXCEPT !.ssh = Len(app.sessions) + 1]
    /\ last' = ProbeAndSend(t, Len(app.sessions) + 1, Append(app.sessions, TRUE))
    /\ UNCHANGED <<cli_retry_time, pool_dict>>

\* create() raises: the appliance cannot be reached.
CreateFails(t) ==
    /\ last.pc[t] = "create"
    /\ last' = [last EXCEPT !.pc[t] = "idle", !.calls[t] = @ + 1,
                            !.failed[t] = @ + 1]
    /\ UNCHANGED <<cli_retry_time, ssh, pool_dict, app>>

\* ssh_execute returns or raises: the call is over.
Replied(t) ==
    /\ last.pc[t] = "ssh_execute"
    /\ last' = [last EXCEPT !.pc[t] = "idle", !.calls[t] = @ + 1]
    /\ UNCHANGED <<cli_retry_time, ssh, pool_dict, app>>

\* The transport of a session stops being active.
Drop ==
    /\ \E s \in DOMAIN app.sessions :
         /\ app.sessions[s]
         /\ app' = [app EXCEPT !.sessions[s] = FALSE]
    /\ UNCHANGED <<cli_retry_time, ssh, pool_dict, last>>

NextSessions ==
    \/ \E t \in Callers : EnterCreate(t)
    \/ \E t \in Callers : EnterReuse(t)
    \/ \E t \in Callers : Created(t)
    \/ \E t \in Callers : CreateFails(t)
    \/ \E t \in Callers : Replied(t)
    \/ Drop

SpecSessions == InitSessions /\ [][NextSessions]_vars

\* the sessions that are established and still active
ActiveSessions == {s \in DOMAIN app.sessions : app.sessions[s]}

\* C36: whatever the interleaving of the callers, at most one established
\* session is active at a time, and the commands sent over sessions that
\* are still active all went over the same one.
C36_OneSession ==
    /\ Cardinality(ActiveSessions) <= 1
    /\ \A a, b \in last.sent :
         (a.session \in ActiveSessions /\ b.session \in ActiveSessions)
         => a.session = b.session

====
